---- MODULE Spec2Model ----
(***************************************************************************)
(* Conversation state machines of the lang-pz3 agent scripts:              *)
(*   src/agent/workflow_fixed.py        vendor-intake workflow and driver  *)
(*   src/agent/workflowbond7.py         007 agent on a langgraph graph     *)
(*   src/agent/standalone_bond7_agent.py  007 agent with its own loop      *)
(*   src/agent/007-workflow.py          first increment of the 007 agent   *)
(*   src/agent/workflow.py              validate, process, format graph    *)
(*                                                                         *)
(* A Python dict is a TLA+ function over its keys, a list is a sequence,   *)
(* a str is a sequence of tokens (a token is one word or one run of white  *)
(* space), so strip(), lower(), upper(), split() and "x in s" are computed *)
(* on the text.  A handler is an operator from the state it is given (and  *)
(* the inputs it reads: a line of user input, the model's reply) to the    *)
(* record                                                                  *)
(*     [st |-> the state dict after the handler's in-place writes,         *)
(*      out |-> the dict the handler returns,                              *)
(*      raised |-> whether an exception left the handler]                  *)
(* and a driver action applies the handler and then the driver's merge.    *)
(***************************************************************************)
EXTENDS Integers, Sequences, FiniteSets, TLC

VARIABLES
    prog,          \* which program runs: chosen at start, never changes
    state,         \* the conversation state dict of the running program
    current_step,  \* the driver's own step label (workflow_fixed.main)
    pc,            \* where the driver is
    llm_ok,        \* whether the cached model client could be constructed
    merger,        \* the merge the sentiment loop applies
    last,          \* the last handler call: its inputs, in-place result, output
    hist,          \* the first MaxHist handler calls, in order
    result,        \* workflowbond7.main: the result of the last workflow.invoke
    turns,         \* lines of user input read so far
    mocked,        \* standalone agent: MOCK_MODE, the scripted responder is used
    calls,         \* handler calls made so far (model calls, under a graph)
    line,          \* the line last read at the prompt of an interactive driver
    previous       \* the AgentState a caller held before it created a new one

vars == <<prog, state, current_step, pc, llm_ok, merger, last, hist, result, turns, mocked, calls, line, previous>>

----------------------------------------------------------------------------
(* Bounds of the model *)

\* how many handler calls hist records (later calls are not recorded)
MaxHist == 3

\* how many lines of input a session of the 007 agent reads
MaxTurns == 2

\* how many model calls a session of workflowbond7.main makes
MaxModelCalls == 3

\* how many handlers are called in a row on a state given by the caller
MaxDirectCalls == 2

\* how many calls an instance of the scripted responder has answered before
MaxCallCount == 2

----------------------------------------------------------------------------
(* Python values and text *)

\* None, as a text no input can produce
None == <<"<None>">>

\* langgraph.graph.END
END == "__end__"

WS == " "

Lower(tok) ==
    CASE tok = "Schedule" -> "schedule"
      [] tok = "EXIT" -> "exit"
      [] tok = "Bob" -> "bob"
      [] tok = "POSITIVE" -> "positive"
      [] tok = "NEGATIVE" -> "negative"
      [] tok = "UNCLEAR" -> "unclear"
      [] tok = "Yes" -> "yes"
      [] tok = "What's your name" -> "what's your name"
      [] tok = "What's my name" -> "what's my name"
      [] tok = "My name is" -> "my name is"
      [] tok = "Add a task" -> "add a task"
      [] OTHER -> tok

Upper(tok) ==
    CASE tok = "positive" -> "POSITIVE"
      [] tok = "negative" -> "NEGATIVE"
      [] tok = "unclear" -> "UNCLEAR"
      [] tok = "maybe" -> "MAYBE"
      [] tok = "Positive" -> "POSITIVE"
      [] OTHER -> tok

\* str.lower() and str.upper()
LowerText_Identity(t) == t

LowerText(t) == [i \in 1..Len(t) |-> Lower(t[i])]
UpperText(t) == [i \in 1..Len(t) |-> Upper(t[i])]

RECURSIVE LStrip(_)
LStrip(t) == IF t # <<>> /\ Head(t) = WS THEN LStrip(Tail(t)) ELSE t

RECURSIVE RStrip(_)
RStrip(t) ==
    IF t # <<>> /\ t[Len(t)] = WS THEN RStrip(SubSeq(t, 1, Len(t) - 1)) ELSE t

\* str.strip()
Strip(t) == RStrip(LStrip(t))

\* the words a token is made of that some test of the code looks for
Words(tok) ==
    CASE tok = "what's your name" -> {tok, "what", "name"}
      [] tok = "what's my name" -> {tok, "what", "name"}
      [] tok = "my name is" -> {tok, "name"}
      [] tok = "add a task" -> {tok, "task"}
      [] OTHER -> {tok}

\* word in text
Contains(t, word) == \E i \in 1..Len(t) : word \in Words(t[i])

\* {**a, **b}
DictMerge(a, b) == [k \in DOMAIN a \cup DOMAIN b |-> IF k \in DOMAIN b THEN b[k] ELSE a[k]]

\* d with d[k] = v
DictSet(d, k, v) == [x \in DOMAIN d \cup {k} |-> IF x = k THEN v ELSE d[x]]

\* d.get(k, dflt)
DictGet(d, k, dflt) == IF k \in DOMAIN d THEN d[k] ELSE dflt

SystemMessage(c) == [type |-> "system", content |-> c]
HumanMessage(c) == [type |-> "human", content |-> c]
AIMessage(c) == [type |-> "ai", content |-> c]

IsHuman(m) == m.type = "human"
IsAI(m) == m.type = "ai"

\* the last element of a non-empty list
Last(s) == s[Len(s)]

\* s is a prefix of t
IsPrefix(s, t) == Len(s) <= Len(t) /\ SubSeq(t, 1, Len(s)) = s

\* no model call was made
NoReply == [raises |-> FALSE, content |-> <<>>]

\* the handler's result: nothing raised
Ret(st, out) == [st |-> st, out |-> out, raised |-> FALSE]
\* the handler's result: an exception left it
Raise(st) == [st |-> st, out |-> <<>>, raised |-> TRUE]

HasKey(d, k) == k \in DOMAIN d

----------------------------------------------------------------------------
(* workflow_fixed.py: texts *)

WfSystemPrompt == <<"You are a professional project coordinator">>
WfGreeting == <<"Hello! I'm your project coordinator.", "What's your name">>
WfThanks(name) ==
    <<"Thank you,">> \o name \o
    <<"Would you like me to", "schedule", "an appointment with Dave's Plumbing?">>
WfClosing == <<"Thank you for letting me know.", "Have a great day!">>
WfWhatElse == <<"What else can I help you with?">>
WfInTouch(vendor) == <<"Great!", vendor, "will be in touch soon.">>
WfPassOn(vendor) == <<"I'll pass this information to", vendor, "Is there anything else?">>
WfNoted == <<"I've noted them for the installation team.", "Have a great day!">>
WfHandOff == <<"I'll have Dave's Plumbing contact you to discuss the", "scheduling", "details directly.">>
WfConfirmed == <<"Great!", "I'll have Dave's Plumbing contact you to confirm the details.">>
WfBetterTime == <<"I understand.", "When would be a better time for you?">>
WfReprompt == <<"I'm not sure if that's a yes or no.", "Would you like me to", "schedule", "the consultation?">>
WfTrouble == <<"I'm having trouble understanding.", "Could you please answer with a simple yes or no?">>
WfApology == <<"I apologize, but I'm having trouble processing your request.">>

\* the lines a user may type at human_step's prompt
WfInputs == { <<>>, <<WS>>, <<"bob">>, <<WS, "Bob", WS>>, <<"yes">>, <<"exit">> }

\* what llm.invoke does: it raises, or returns a message with this content
SentimentReplies ==
    { [raises |-> TRUE, content |-> <<>>] } \cup
    { [raises |-> FALSE, content |-> c] :
        c \in { <<"POSITIVE">>, <<WS, "negative">>, <<"UNCLEAR">>, <<"maybe">> } }

----------------------------------------------------------------------------
(* workflow_fixed.py: handlers *)

\* main's registry of handlers
WfRegistry ==
    { "validate", "initialize", "process_name", "process_schedule", "confirm_end",
      "process_additional", "analyze_sentiment", "reschedule", "process_notes",
      "human_step" }

\* main's initial state
WfInitialState ==
    [ customer |-> [name |-> None],
      task |-> [description |-> <<"Kitchen faucet installation">>, schedule |-> None],
      vendor |-> [name |-> "Dave's Plumbing", email |-> "dave@plumbing.com"],
      messages |-> <<>>,
      sentiment |-> "neutral",
      sentiment_attempts |-> 0 ]

\* state with one key set only when it is absent
SetDefault(d, k, v) == IF k \in DOMAIN d THEN d ELSE DictSet(d, k, v)

validate_input(st) ==
    LET v1 == SetDefault(st, "customer", [name |-> None])
        v2 == SetDefault(v1, "task", [description |-> None, status |-> "new"])
        v3 == SetDefault(v2, "vendor", [name |-> "Dave's Plumbing", email |-> "dave@plumbing.com"])
        v4 == SetDefault(v3, "messages", <<>>)
        v5 == SetDefault(v4, "sentiment", "neutral")
        validated_state == SetDefault(v5, "sentiment_attempts", 0)
    IN  Ret(st, DictMerge([current_step |-> "initialize"], validated_state))

initialize_workflow(st) ==
    Ret(st, [ messages |-> <<SystemMessage(WfSystemPrompt), AIMessage(WfGreeting)>>,
              current_step |-> "process_name" ])

\* st with one message appended to its log in place
AppendMessage_Reset(st, m) == [st EXCEPT !.messages = <<m>>]

AppendMessage(st, m) == [st EXCEPT !.messages = Append(@, m)]

\* process_name that goes on to process_schedule without a prompt
process_name_SkipsPrompt(st) ==
    IF DictGet(st, "messages", <<>>) = <<>>
    THEN Ret(st, [current_step |-> "initialize"])
    ELSE IF ~IsHuman(Last(st.messages))
    THEN Ret(st, [current_step |-> "human_step"])
    ELSE LET name == Strip(Last(st.messages).content)
             st2 == AppendMessage(st, AIMessage(WfThanks(name)))
         IN  Ret(st2, [current_step |-> "process_schedule", messages |-> st2.messages])

process_name(st) ==
    IF DictGet(st, "messages", <<>>) = <<>>
    THEN Ret(st, [current_step |-> "initialize"])
    ELSE IF ~IsHuman(Last(st.messages))
    THEN Ret(st, [current_step |-> "human_step"])
    ELSE LET name == Strip(Last(st.messages).content)
             st2 == AppendMessage(st, AIMessage(WfThanks(name)))
         IN  Ret(st2, [current_step |-> "human_step", messages |-> st2.messages])

process_schedule_End(st) ==
    IF DictGet(st, "messages", <<>>) = <<>>
    THEN Ret(st, [current_step |-> "initialize"])
    ELSE IF ~IsHuman(Last(st.messages))
    THEN Ret(st, [current_step |-> "human_step"])
    ELSE LET st2 == AppendMessage(st, AIMessage(WfClosing))
         IN  Ret(st2, [current_step |-> "end", messages |-> st2.messages])

process_schedule(st) ==
    IF DictGet(st, "messages", <<>>) = <<>>
    THEN Ret(st, [current_step |-> "initialize"])
    ELSE IF ~IsHuman(Last(st.messages))
    THEN Ret(st, [current_step |-> "human_step"])
    ELSE LET st2 == AppendMessage(st, AIMessage(WfClosing))
         IN  Ret(st2, [current_step |-> END, messages |-> st2.messages])

\* the human messages of a log, in order
HumanMessages(msgs) == SelectSeq(msgs, IsHuman)

confirm_end(st) ==
    LET human_messages == HumanMessages(st.messages)
    IN  IF human_messages = <<>>
        THEN Ret(st, [current_step |-> "confirm_end"])
        ELSE LET last_message == LowerText(Strip(Last(human_messages).content))
             IN  IF Contains(last_message, "yes") \/ Contains(last_message, "yeah")
                 THEN Ret(AppendMessage(st, AIMessage(WfWhatElse)),
                          [current_step |-> "process_additional"])
                 ELSE Ret(AppendMessage(st, AIMessage(WfInTouch(st.vendor.name))),
                          [current_step |-> "__end__"])

process_additional(st) ==
    IF HumanMessages(st.messages) = <<>>
    THEN Ret(st, [current_step |-> "process_additional"])
    ELSE Ret(AppendMessage(st, AIMessage(WfPassOn(st.vendor.name))),
             [current_step |-> "confirm_end"])

reschedule(st) ==
    IF DictGet(st, "messages", <<>>) = <<>>
    THEN Ret(st, [current_step |-> "initialize"])
    ELSE IF ~IsHuman(Last(st.messages))
    THEN Ret(st, [current_step |-> "human_step"])
    ELSE LET st2 == AppendMessage(st, AIMessage(WfClosing))
         IN  Ret(st2, [current_step |-> END, messages |-> st2.messages])

process_notes(st) ==
    IF DictGet(st, "messages", <<>>) = <<>>
    THEN Ret(st, [current_step |-> "initialize"])
    ELSE IF ~IsHuman(Last(st.messages))
    THEN Ret(st, [current_step |-> "human_step"])
    ELSE LET st2 == AppendMessage(st, AIMessage(WfNoted))
         IN  Ret(st2, [current_step |-> "end", messages |-> st2.messages])

\* human_step that hands the answer about scheduling to analyze_sentiment
human_step_ToSentiment(st, human_input) ==
    IF Strip(human_input) = <<>>
    THEN Ret(st, [current_step |-> "__end__"])
    ELSE LET st2 == AppendMessage(st, HumanMessage(human_input))
             msgs == st2.messages
         IN  IF HasKey(st2, "current_step") /\ st2["current_step"] = "initialize"
             THEN Ret(st2, [current_step |-> "process_name", messages |-> msgs])
             ELSE IF Len(msgs) > 1
                     /\ Contains(LowerText(msgs[Len(msgs) - 1].content), "schedule")
             THEN Ret(st2, [current_step |-> "analyze_sentiment", messages |-> msgs])
             ELSE Ret(st2, [current_step |-> "process_name", messages |-> msgs])

human_step(st, human_input) ==
    IF Strip(human_input) = <<>>
    THEN Ret(st, [current_step |-> "__end__"])
    ELSE LET st2 == AppendMessage(st, HumanMessage(human_input))
             msgs == st2.messages
         IN  IF HasKey(st2, "current_step") /\ st2["current_step"] = "initialize"
             THEN Ret(st2, [current_step |-> "process_name", messages |-> msgs])
             ELSE IF Len(msgs) > 1
                     /\ Contains(LowerText(msgs[Len(msgs) - 1].content), "schedule")
             THEN Ret(st2, [current_step |-> "process_schedule", messages |-> msgs])
             ELSE Ret(st2, [current_step |-> "process_name", messages |-> msgs])

\* AtLimit with the limit one too high
AtLimit_OffByOne(attempts) == attempts >= 4

\* "if attempts >= 3": the attempt limit is checked before anything else
AtLimit(attempts) == attempts >= 3

\* OnThirdAttempt that lets the third unclear result re-prompt
OnThirdAttempt_Late(attempts) == attempts >= 3

\* "if attempts >= 2": an unclear result on the third attempt ends the loop
OnThirdAttempt(attempts) == attempts >= 2

\* the try block with a counter that starts again on every result
ClassifySentiment_CountsFromZero(st, attempts, content) ==
    LET sentiment == UpperText(Strip(content))
        st2 == DictSet(st, "sentiment_attempts", 1)
    IN  IF sentiment = <<"POSITIVE">>
        THEN Ret(st2, [ sentiment |-> "positive",
                        sentiment_attempts |-> st2.sentiment_attempts,
                        messages |-> <<AIMessage(WfConfirmed)>>,
                        current_step |-> END ])
        ELSE IF sentiment = <<"NEGATIVE">>
        THEN Ret(st2, [ sentiment |-> "negative",
                        sentiment_attempts |-> st2.sentiment_attempts,
                        messages |-> <<AIMessage(WfBetterTime)>>,
                        current_step |-> "reschedule" ])
        ELSE IF OnThirdAttempt(attempts)
        THEN Ret(st2, [ sentiment |-> "unclear",
                        sentiment_attempts |-> st2.sentiment_attempts,
                        messages |-> <<AIMessage(WfHandOff)>>,
                        current_step |-> END ])
        ELSE Ret(st2, [ sentiment |-> "unclear",
                        sentiment_attempts |-> st2.sentiment_attempts,
                        messages |-> <<AIMessage(WfReprompt)>>,
                        current_step |-> "analyze_sentiment" ])

\* the body of analyze_sentiment's try block once llm.invoke has returned
ClassifySentiment(st, attempts, content) ==
    LET sentiment == UpperText(Strip(content))
        st2 == DictSet(st, "sentiment_attempts", attempts + 1)
    IN  IF sentiment = <<"POSITIVE">>
        THEN Ret(st2, [ sentiment |-> "positive",
                        sentiment_attempts |-> st2.sentiment_attempts,
                        messages |-> <<AIMessage(WfConfirmed)>>,
                        current_step |-> END ])
        ELSE IF sentiment = <<"NEGATIVE">>
        THEN Ret(st2, [ sentiment |-> "negative",
                        sentiment_attempts |-> st2.sentiment_attempts,
                        messages |-> <<AIMessage(WfBetterTime)>>,
                        current_step |-> "reschedule" ])
        ELSE IF OnThirdAttempt(attempts)
        THEN Ret(st2, [ sentiment |-> "unclear",
                        sentiment_attempts |-> st2.sentiment_attempts,
                        messages |-> <<AIMessage(WfHandOff)>>,
                        current_step |-> END ])
        ELSE Ret(st2, [ sentiment |-> "unclear",
                        sentiment_attempts |-> st2.sentiment_attempts,
                        messages |-> <<AIMessage(WfReprompt)>>,
                        current_step |-> "analyze_sentiment" ])

\* analyze_sentiment's except block: llm.invoke raised before the counter was written
SentimentFailed(st) ==
    IF HasKey(st, "sentiment_attempts")
    THEN Ret(st, [ sentiment_attempts |-> st.sentiment_attempts,
                   messages |-> <<AIMessage(WfTrouble)>>,
                   current_step |-> "analyze_sentiment" ])
    ELSE Raise(st)

\* analyze_sentiment that asks again at the limit
analyze_sentiment_RepromptAtLimit(st, llm, reply) ==
    LET attempts == DictGet(st, "sentiment_attempts", 0)
    IN  IF AtLimit(attempts)
        THEN Ret(st, [ sentiment |-> "unclear",
                       messages |-> <<AIMessage(WfReprompt)>>,
                       current_step |-> "analyze_sentiment" ])
        ELSE IF DictGet(st, "messages", <<>>) = <<>>
        THEN Ret(st, [current_step |-> "process_name"])
        ELSE IF HumanMessages(st.messages) = <<>>
        THEN Ret(st, [current_step |-> "process_name"])
        ELSE IF ~llm
        THEN Ret(st, [ messages |-> <<AIMessage(WfApology)>>, current_step |-> END ])
        ELSE IF reply.raises
        THEN SentimentFailed(st)
        ELSE ClassifySentiment(st, attempts, reply.content)

analyze_sentiment(st, llm, reply) ==
    LET attempts == DictGet(st, "sentiment_attempts", 0)
    IN  IF AtLimit(attempts)
        THEN Ret(st, [ sentiment |-> "unclear",
                       messages |-> <<AIMessage(WfHandOff)>>,
                       current_step |-> END ])
        ELSE IF DictGet(st, "messages", <<>>) = <<>>
        THEN Ret(st, [current_step |-> "process_name"])
        ELSE IF HumanMessages(st.messages) = <<>>
        THEN Ret(st, [current_step |-> "process_name"])
        ELSE IF ~llm
        THEN Ret(st, [ messages |-> <<AIMessage(WfApology)>>, current_step |-> END ])
        ELSE IF reply.raises
        THEN SentimentFailed(st)
        ELSE ClassifySentiment(st, attempts, reply.content)

\* whether the step calls llm.invoke on this state
WfAsksModel(step, st, llm) ==
    /\ step = "analyze_sentiment"
    /\ llm
    /\ ~AtLimit(DictGet(st, "sentiment_attempts", 0))
    /\ HumanMessages(DictGet(st, "messages", <<>>)) # <<>>

\* workflow[current_step](state)
WfCall(step, st, human_input, llm, reply) ==
    CASE step = "validate" -> validate_input(st)
      [] step = "initialize" -> initialize_workflow(st)
      [] step = "process_name" -> process_name(st)
      [] step = "process_schedule" -> process_schedule(st)
      [] step = "confirm_end" -> confirm_end(st)
      [] step = "process_additional" -> process_additional(st)
      [] step = "analyze_sentiment" -> analyze_sentiment(st, llm, reply)
      [] step = "reschedule" -> reschedule(st)
      [] step = "process_notes" -> process_notes(st)
      [] step = "human_step" -> human_step(st, human_input)
      [] OTHER -> Raise(st)   \* workflow[current_step]: KeyError

----------------------------------------------------------------------------
(* workflow_fixed.py: main's merge of a step's output into the state *)

\* the keys whose values are dicts (isinstance(value, dict))
WfDictKeys == {"customer", "task", "vendor"}

\* a dict value's entries are written to the state's own keys of the same name;
\* the entries of customer, task and vendor are scalars, so each is assigned
MergeSubkeys(st, value) ==
    [k \in DOMAIN st |-> IF k \in DOMAIN value THEN value[k] ELSE st[k]]

RECURSIVE MergeDictValues(_, _, _)
MergeDictValues(st, out, keys) ==
    IF keys = {} THEN st
    ELSE LET k == CHOOSE x \in keys : TRUE
         IN  MergeDictValues(MergeSubkeys(st, out[k]), out, keys \ {k})

\* a value that is no dict is assigned (state[key] = value), a list included
WfMerge(st, out) ==
    LET nested == MergeDictValues(st, out, DOMAIN out \cap WfDictKeys)
        plain == (DOMAIN out \ WfDictKeys) \ {"current_step"}
    IN  [k \in DOMAIN nested \cup plain |->
            IF k \in plain
            THEN out[k]
            ELSE nested[k]]

\* test_workflow2_local.update_state
update_state(current_state, new_state) == DictMerge(current_state, new_state)

----------------------------------------------------------------------------
(* workflowbond7.py: texts and model replies *)

B7SystemPrompt == <<"You are 007, a personal productivity agent.">>
B7HelloName(name) == <<"Hello">> \o name \o <<"I'm 007.", "How can I help you today?">>
B7HelloStranger == <<"Hello!", "I'm 007.", "I don't think we've met before.", "What's your name">>
B7NiceToMeet(name) == <<"Nice to meet you,">> \o name \o <<"How can I help you today?">>
B7TroubleProcessing == <<"I'm sorry, but I'm having trouble processing your request right now.">>
B7TroubleAnswering == <<"I'm sorry, but I'm having trouble answering your question right now.">>
B7Added(task) == <<"I've added">> \o task \o <<"to your todo list.", "Is there anything else?">>
B7NoTasks == <<"You don't have any tasks in your todo list yet.", "Would you like to add one?">>
B7Farewell == <<"It was great helping you today!">>
B7ComeBack == <<"Feel free to come back anytime.">>

\* a true value in "if x:" for a text or None
Truthy(t) == t # None /\ t # <<>>

\* the intent labels the prompt of process_input lists
B7Intents == {"add_todo", "view_todos", "general_question", "end_conversation"}

\* the content of the intent analyzer's reply: text that is no JSON, a JSON array,
\* or a JSON object with these fields
JsonText == [form |-> "text", fields |-> <<>>]
JsonArray == [form |-> "array", fields |-> <<>>]
JsonObject(fields) == [form |-> "object", fields |-> fields]

\* what intent_analyzer.invoke does in process_input
IntentReplies ==
    { [raises |-> TRUE, content |-> JsonText] } \cup
    { [raises |-> FALSE, content |-> c] :
        c \in { JsonText, JsonArray, JsonObject([details |-> "x"]) } \cup
              { JsonObject([intent |-> i, details |-> "x"]) : i \in B7Intents \cup {"shop"} } }

\* what model.invoke does in general_question
AnswerReplies ==
    { [raises |-> TRUE, content |-> <<>>],
      [raises |-> FALSE, content |-> <<"Happy to help.">>] }

----------------------------------------------------------------------------
(* workflowbond7.py: handlers *)

validate_input_b7(st) ==
    LET s1 == SetDefault(st, "user", [name |-> None])
        s2 == SetDefault(s1, "todos", <<>>)
        s3 == SetDefault(s2, "current_step", "initialize_agent")
        s4 == SetDefault(s3, "messages", <<>>)
        s5 == SetDefault(s4, "skills_used", <<>>)
    IN  Ret(s5, s5)

initialize_agent_b7(st) == Ret(st, [current_step |-> "generate_greeting"])

\* the step generate_greeting hands over to
GreetingNextStep == "process_input"

\* the messages generate_greeting returns
GreetingMessages_BothAI(system_prompt, greeting) ==
    <<AIMessage(system_prompt), AIMessage(greeting)>>

GreetingMessages(system_prompt, greeting) ==
    <<SystemMessage(system_prompt), AIMessage(greeting)>>

generate_greeting_b7(st) ==
    LET user_name == DictGet(st.user, "name", None)
        greeting == IF Truthy(user_name) THEN B7HelloName(user_name) ELSE B7HelloStranger
    IN  Ret(st, [ messages |-> GreetingMessages(B7SystemPrompt, greeting),
                  current_step |-> GreetingNextStep ])

\* list with x appended unless it is in the list already
AppendIfAbsent_Always(list, x) == Append(list, x)

AppendIfAbsent(list, x) == IF x \in { list[i] : i \in 1..Len(list) } THEN list ELSE Append(list, x)

\* the try block of process_input: json.loads and the reading of the result
ParseIntent_NoExcept(st, content) ==
    IF content.form # "object"
    THEN Raise(st)
    ELSE LET intent == DictGet(content.fields, "intent", "general_question")
             skills_used == AppendIfAbsent(st.skills_used, intent)
             st2 == [st EXCEPT !.skills_used = skills_used]
         IN  Ret(st2, [skills_used |-> skills_used, current_step |-> intent])

ParseIntent(st, content) ==
    IF content.form # "object"
    THEN \* json.loads raises, or .get is no attribute of the value: except Exception
         Ret(st, [current_step |-> "general_question"])
    ELSE LET intent == DictGet(content.fields, "intent", "general_question")
             skills_used == AppendIfAbsent(st.skills_used, intent)
             st2 == [st EXCEPT !.skills_used = skills_used]
         IN  Ret(st2, [skills_used |-> skills_used, current_step |-> intent])

process_input_b7_NoStrip(st, llm, reply) ==
    IF st.messages = <<>>
    THEN Raise(st)
    ELSE LET latest_message == Last(st.messages)
             name == latest_message.content
         IN  IF DictGet(st.user, "name", None) = None /\ IsHuman(latest_message)
                /\ Len(name) > 0
             THEN Ret(st, [ user |-> [name |-> name],
                            messages |-> <<AIMessage(B7NiceToMeet(name))>>,
                            current_step |-> "process_input" ])
             ELSE IF ~llm
             THEN Ret(st, [ messages |-> <<AIMessage(B7TroubleProcessing)>>,
                            current_step |-> "end_session" ])
             ELSE IF reply.raises
             THEN Raise(st)
             ELSE ParseIntent(st, reply.content)

process_input_b7(st, llm, reply) ==
    IF st.messages = <<>>
    THEN Raise(st)
    ELSE LET latest_message == Last(st.messages)
             name == Strip(latest_message.content)
         IN  IF DictGet(st.user, "name", None) = None /\ IsHuman(latest_message)
                /\ Len(name) > 0
             THEN Ret(st, [ user |-> [name |-> name],
                            messages |-> <<AIMessage(B7NiceToMeet(name))>>,
                            current_step |-> "process_input" ])
             ELSE IF ~llm
             THEN Ret(st, [ messages |-> <<AIMessage(B7TroubleProcessing)>>,
                            current_step |-> "end_session" ])
             ELSE IF reply.raises
             THEN Raise(st)
             ELSE ParseIntent(st, reply.content)

\* datetime.now().isoformat(): the model keeps no clock
Now == "now"

add_todo_Replace(st) ==
    IF st.messages = <<>>
    THEN Raise(st)
    ELSE LET latest_message == Last(st.messages).content
             todos == <<[task |-> latest_message, created_at |-> Now]>>
             st2 == [st EXCEPT !.todos = todos]
         IN  Ret(st2, [ todos |-> todos,
                        messages |-> <<AIMessage(B7Added(latest_message))>>,
                        current_step |-> "process_input" ])

add_todo(st) ==
    IF st.messages = <<>>
    THEN Raise(st)
    ELSE LET latest_message == Last(st.messages).content
             todos == Append(st.todos, [task |-> latest_message, created_at |-> Now])
             st2 == [st EXCEPT !.todos = todos]
         IN  Ret(st2, [ todos |-> todos,
                        messages |-> <<AIMessage(B7Added(latest_message))>>,
                        current_step |-> "process_input" ])

RECURSIVE TodoLines(_)
TodoLines(todos) ==
    IF todos = <<>> THEN <<>>
    ELSE TodoLines(SubSeq(todos, 1, Len(todos) - 1)) \o Last(todos).task

view_todos(st) ==
    LET response == IF st.todos = <<>>
                    THEN B7NoTasks
                    ELSE <<"Here's your current todo list:">> \o TodoLines(st.todos)
                         \o <<"Is there anything else?">>
    IN  Ret(st, [messages |-> <<AIMessage(response)>>, current_step |-> "process_input"])

general_question(st, llm, reply) ==
    IF ~llm
    THEN Ret(st, [ messages |-> <<AIMessage(B7TroubleAnswering)>>,
                   current_step |-> "process_input" ])
    ELSE IF reply.raises
    THEN Raise(st)
    ELSE Ret(st, [ messages |-> <<AIMessage(reply.content)>>,
                   current_step |-> "process_input" ])

end_conversation(st) ==
    LET tasks_added == Len(st.todos)
        farewell == B7Farewell
                    \o (IF tasks_added > 0 THEN <<"I've added", ToString(tasks_added), "tasks">> ELSE <<>>)
                    \o B7ComeBack
    IN  Ret(st, [messages |-> <<AIMessage(farewell)>>, current_step |-> END])

end_session(st) == Ret(st, [current_step |-> END])

\* the nodes of the graph
B7Nodes ==
    { "validate_input", "initialize_agent", "generate_greeting", "process_input",
      "add_todo", "view_todos", "general_question", "end_conversation", "end_session" }

\* the node's function applied to the state
B7Call(node, st, llm, reply) ==
    CASE node = "validate_input" -> validate_input_b7(st)
      [] node = "initialize_agent" -> initialize_agent_b7(st)
      [] node = "generate_greeting" -> generate_greeting_b7(st)
      [] node = "process_input" -> process_input_b7(st, llm, reply)
      [] node = "add_todo" -> add_todo(st)
      [] node = "view_todos" -> view_todos(st)
      [] node = "general_question" -> general_question(st, llm, reply)
      [] node = "end_conversation" -> end_conversation(st)
      [] node = "end_session" -> end_session(st)

\* the model replies a node may get
B7Replies(node) ==
    CASE node = "process_input" -> IntentReplies
      [] node = "general_question" -> AnswerReplies
      [] OTHER -> {NoReply}

----------------------------------------------------------------------------
(* The record of handler calls *)

NoCall ==
    [ op |-> "none", inp |-> <<>>, asked |-> FALSE, reply |-> NoReply, pre |-> <<>>,
      st |-> <<>>, out |-> <<>>, raised |-> FALSE ]

\* a call of handler op on state pre, which read the line inp and, if it asked
\* the model, got reply, with result r
Call(op, pre, inp, asked, reply, r) ==
    [ op |-> op, inp |-> inp, asked |-> asked, reply |-> IF asked THEN reply ELSE NoReply,
      pre |-> pre, st |-> r.st, out |-> r.out, raised |-> r.raised ]

\* hist with one more call (the handler, the model's reply, the output), while
\* there is room
Record(h, c) ==
    IF Len(h) < MaxHist
    THEN Append(h, [op |-> c.op, asked |-> c.asked, reply |-> c.reply, out |-> c.out])
    ELSE h

----------------------------------------------------------------------------
(* workflow_fixed.py: main *)

\* the step label after a step's output
NextStep(step, out) == IF HasKey(out, "current_step") THEN out["current_step"] ELSE step

\* the programs that run main's while loop: main itself, and the loop entered
\* at a step of a conversation under way
WfMainProgs == {"wf_main", "wf_loop"}

\* the steps and the log the loop is entered with when it is not main that
\* enters it: the user has answered the greeting
WfEntrySteps == {"process_notes", "reschedule"}

WfEntryState ==
    [WfInitialState EXCEPT !.messages = <<AIMessage(WfGreeting), HumanMessage(<<"yes">>)>>]

IsRegistered_Any(step) == TRUE

\* current_step in workflow
IsRegistered(step) == step \in WfRegistry

\* one iteration of main's while loop
WfMainStep ==
    /\ prog \in WfMainProgs
    /\ pc = "loop"
    /\ current_step # "__end__"
    /\ IF ~IsRegistered(current_step)
       THEN /\ pc' = "invalid"
            /\ UNCHANGED <<state, current_step, last, hist, turns, calls>>
       ELSE \E human_input \in WfInputs, reply \in SentimentReplies :
              LET r == WfCall(current_step, state, human_input, llm_ok, reply)
                  c == Call(current_step, state,
                            IF current_step = "human_step" THEN human_input ELSE <<>>,
                            WfAsksModel(current_step, state, llm_ok), reply, r)
              IN  /\ last' = c
                  /\ hist' = Record(hist, c)
                  /\ calls' = calls + 1
                  /\ turns' = IF current_step = "human_step" THEN turns + 1 ELSE turns
                  /\ IF r.raised
                     THEN /\ state' = r.st
                          /\ pc' = "error"
                          /\ UNCHANGED current_step
                     ELSE /\ state' = WfMerge(r.st, r.out)
                          /\ current_step' = NextStep(current_step, r.out)
                          /\ pc' = IF current_step' = "__end__" THEN "done" ELSE "loop"
    /\ UNCHANGED <<prog, llm_ok, merger, result, mocked, line, previous>>

----------------------------------------------------------------------------
(* analyze_sentiment driven turn by turn: the user answers, analyze_sentiment
   runs on the state, and its output is merged into the state *)

SentInputs == { <<"yes">>, <<"hmm">> }

Merge(how, st, out) ==
    IF how = "main" THEN WfMerge(st, out) ELSE update_state(st, out)

SentimentTurn ==
    /\ prog = "wf_sent"
    /\ pc = "loop"
    /\ \E human_input \in SentInputs, reply \in SentimentReplies :
         LET pre == AppendMessage(state, HumanMessage(human_input))
             r == analyze_sentiment(pre, llm_ok, reply)
             c == Call("analyze_sentiment", pre, human_input,
                       WfAsksModel("analyze_sentiment", pre, llm_ok), reply, r)
         IN  /\ last' = c
             /\ hist' = Record(hist, c)
             /\ IF r.raised
                THEN /\ state' = r.st
                     /\ pc' = "error"
                     /\ UNCHANGED current_step
                ELSE /\ state' = Merge(merger, r.st, r.out)
                     /\ current_step' = NextStep(current_step, r.out)
                     /\ pc' = "loop"
    /\ UNCHANGED <<prog, llm_ok, merger, result, turns, mocked, calls, line, previous>>

----------------------------------------------------------------------------
(* workflowbond7.py: the graph of create_agent_graph, run as langgraph runs it *)

\* add_messages gives each message it stores an id; the log only grows, so the
\* position of a message in the log serves as its id
HasId(m) == HasKey(m, "id")
WithId(m, id) == [type |-> m.type, content |-> m.content, id |-> id]

\* langgraph's add_messages(left, [m]): a message whose id is in the log replaces
\* the message of that id, any other message is appended
AddMessage(left, m) ==
    IF HasId(m) /\ \E i \in 1..Len(left) : left[i].id = m.id
    THEN [i \in 1..Len(left) |-> IF left[i].id = m.id THEN m ELSE left[i]]
    ELSE Append(left, IF HasId(m) THEN m ELSE WithId(m, Len(left) + 1))

RECURSIVE add_messages(_, _)
add_messages(left, right) ==
    IF right = <<>> THEN left
    ELSE add_messages(AddMessage(left, Head(right)), Tail(right))

\* AgentState's channels: messages is reduced by add_messages, a value written
\* to any other key replaces the key's value
B7Reduce(st, out) ==
    [k \in DOMAIN st \cup DOMAIN out |->
        IF k \notin DOMAIN out THEN st[k]
        ELSE IF k = "messages" THEN add_messages(DictGet(st, "messages", <<>>), out[k])
        ELSE out[k]]

\* the map of the conditional edge out of process_input
B7Routes == {"add_todo", "view_todos", "general_question", "end_conversation", "end_session"}

\* the node after a node, "finish" when the run ends, "KeyError" when the
\* conditional edge has no entry for state["current_step"]
B7Successor(node, st) ==
    CASE node = "validate_input" -> "initialize_agent"
      [] node = "initialize_agent" -> "generate_greeting"
      [] node = "generate_greeting" -> "process_input"
      [] node = "process_input" ->
            IF st.current_step \in B7Routes THEN st.current_step ELSE "KeyError"
      [] node \in {"add_todo", "view_todos", "general_question"} -> "process_input"
      [] node \in {"end_conversation", "end_session"} -> "finish"

\* whether the node calls a model on this state
B7UsesModel(node, st) ==
    /\ llm_ok
    /\ \/ node = "general_question"
       \/ /\ node = "process_input"
          /\ st.messages # <<>>
          /\ ~( /\ DictGet(st.user, "name", None) = None
                /\ IsHuman(Last(st.messages))
                /\ Len(Strip(Last(st.messages).content)) > 0 )

----------------------------------------------------------------------------
(* workflowbond7.py: main *)

B7Inputs == { <<"bob">>, <<"EXIT">>, <<>> }

ExitWords == { <<"exit">>, <<"quit">>, <<"bye">> }

\* workflow.invoke(input): the channels are written from the input
B7Invoke(input) == B7Reduce(<<>>, input)

\* main up to its first workflow.invoke
B7Start ==
    /\ prog = "b7_main"
    /\ pc = "start"
    /\ state' = B7Invoke([messages |-> <<>>])
    /\ pc' = "validate_input"
    /\ UNCHANGED <<prog, current_step, llm_ok, merger, last, hist, result, turns, mocked, calls, line, previous>>

SharedLists_Copied(res, st) == res

\* the lists a node appends to in place are the lists of the dict that main
\* passed to workflow.invoke (state = result.copy() is a shallow copy), so main's
\* result holds what was appended when the invoke raises
SharedLists(res, st) ==
    [k \in DOMAIN res |-> IF k \in {"todos", "skills_used"} /\ HasKey(st, k) THEN st[k] ELSE res[k]]

B7AfterError_NoTry(read) == "crashed"

\* where main is after workflow.invoke raised: the first invoke is not in a try,
\* the invokes of the loop are, and their except branch goes on with the loop
B7AfterError(read) == IF read = 0 THEN "crashed" ELSE "input"

\* one node of the graph runs inside workflow.invoke
B7Node ==
    /\ prog = "b7_main"
    /\ pc \in B7Nodes
    /\ \E reply \in B7Replies(pc) :
         LET uses == B7UsesModel(pc, state)
             r == B7Call(pc, state, llm_ok, reply)
             c == Call(pc, state, <<>>, uses, reply, r)
             after == B7Reduce(r.st, r.out)
             succ == IF r.raised THEN "raised" ELSE B7Successor(pc, after)
         IN  /\ uses => calls < MaxModelCalls
             /\ calls' = IF uses THEN calls + 1 ELSE calls
             /\ last' = c
             /\ hist' = Record(hist, c)
             /\ IF succ \in {"raised", "KeyError"}
                THEN \* the first invoke is outside main's try, the later ones inside
                     /\ pc' = B7AfterError(turns)
                     /\ state' = IF r.raised THEN r.st ELSE after
                     /\ result' = SharedLists(result, state')
                ELSE IF succ = "finish"
                THEN /\ state' = after
                     /\ result' = after
                     /\ pc' = IF turns > 0 /\ after.current_step = END THEN "done" ELSE "input"
                ELSE /\ state' = after
                     /\ pc' = succ
                     /\ UNCHANGED result
    /\ UNCHANGED <<prog, current_step, llm_ok, merger, turns, mocked, line, previous>>

\* main reads a line: an exit word ends the loop, any other line is appended to
\* the messages of the last result and the graph is invoked on that
B7UserInput ==
    /\ prog = "b7_main"
    /\ pc = "input"
    /\ turns < MaxTurns
    /\ \E user_input \in B7Inputs :
         /\ turns' = turns + 1
         /\ line' = user_input
         /\ IF LowerText(user_input) \in ExitWords
            THEN /\ pc' = "exited"
                 /\ UNCHANGED <<state, result>>
            ELSE LET input == AppendMessage(result, HumanMessage(user_input))
                 IN  /\ result' = input
                     /\ state' = B7Invoke(input)
                     /\ pc' = "validate_input"
    /\ UNCHANGED <<prog, current_step, llm_ok, merger, last, hist, mocked, calls, previous>>

----------------------------------------------------------------------------
(* workflowbond7.py: a handler called on a state the caller provides *)

\* states a caller may hold: validate_input's defaults, a user who is or is not
\* known, and a log that ends with the greeting or with the user's line
B7GivenStates ==
    { [ user |-> u, todos |-> <<>>, current_step |-> "initialize_agent",
        messages |-> m, skills_used |-> <<>> ] :
        u \in { [name |-> None], [name |-> <<"bob">>],
                [name |-> None, email |-> <<"test@example.com">>] },
        m \in { <<WithId(AIMessage(B7HelloStranger), 1)>>,
                <<WithId(AIMessage(B7HelloStranger), 1), WithId(HumanMessage(<<WS, "bob">>), 2)>>,
                <<WithId(AIMessage(B7HelloStranger), 1), WithId(HumanMessage(<<WS>>), 2)>> } }

\* what the caller does before process_input: nothing, or append the user's line
B7DirectInputs(node) ==
    IF node = "process_input" THEN { None, <<"Bob">> } ELSE { None }

\* the caller runs one node on its state (process_input after the user's line,
\* if there is one) and merges the output as the graph does
B7DirectCall ==
    /\ prog = "b7_call"
    /\ pc = "loop"
    /\ calls < MaxDirectCalls
    /\ \E node \in B7Nodes : \E reply \in B7Replies(node), user_input \in B7DirectInputs(node) :
         LET pre == IF user_input = None THEN state
                    ELSE [state EXCEPT !.messages = add_messages(@, <<HumanMessage(user_input)>>)]
             r == B7Call(node, pre, llm_ok, reply)
             c == Call(node, pre, user_input, B7UsesModel(node, pre), reply, r)
         IN  /\ last' = c
             /\ calls' = calls + 1
             /\ state' = IF r.raised THEN r.st ELSE B7Reduce(r.st, r.out)
             /\ pc' = IF r.raised THEN "error" ELSE "loop"
    /\ UNCHANGED <<prog, current_step, llm_ok, merger, hist, result, turns, mocked, line, previous>>

----------------------------------------------------------------------------
(* standalone_bond7_agent.py: texts, the scripted responder, the live model *)

SaGreetingPrompt ==
    <<"You are 007, a personal productivity agent.",
      "3. Remember the user's name and preferences",
      "Your first message should ask for the user's name if you don't know it yet.">>
SaHelloName(name) == <<"Hello">> \o name \o <<"I'm 007.", "How can I help you today?">>
SaHelloStranger == <<"Hello!", "I'm 007.", "I don't think we've met before.", "What's your name">>
SaAnythingSpecific == <<"I understand.", "Is there anything specific you'd like help with today?">>

\* MockLanguageModel.responses, {name} filled in
MockResponse(key, name) ==
    CASE key = "greeting" -> SaHelloStranger
      [] key = "name_intro" -> <<"Nice to meet you,">> \o name \o <<"How can I help you today?">>
      [] key = "task_added" -> <<"I've added that task to your list.">>
      [] key = "fallback" -> <<"I understand.", "How can I assist you further?">>
      [] key = "name_recall" -> <<"Your name is">> \o name \o <<"Is there anything else?">>

\* the text after the first occurrence of a token, up to the next occurrence
\* (str.split(sep)[1]); <<>> when the token ends the text
RECURSIVE UpTo(_, _)
UpTo(t, sep) == IF t = <<>> \/ Head(t) = sep THEN <<>> ELSE <<Head(t)>> \o UpTo(Tail(t), sep)

RECURSIVE AfterFirst(_, _)
AfterFirst(t, sep) ==
    IF Head(t) = sep THEN UpTo(Tail(t), sep) ELSE AfterFirst(Tail(t), sep)

\* whether str.split(sep) has more than one part
Splits(t, sep) == \E i \in 1..Len(t) : t[i] = sep

\* the name the scripted responder reads from the system messages it is given:
\* the text between "user's name is " and the next "." of the last system
\* message that has one and names a user other than "unknown", else "user"
RECURSIVE MockUserName(_, _)
MockUserName(messages, user_name) ==
    IF messages = <<>> THEN user_name
    ELSE LET msg == Head(messages)
             name_part == IF msg.type = "system" /\ Splits(msg.content, "user's name is")
                          THEN Strip(UpTo(AfterFirst(msg.content, "user's name is"), "."))
                          ELSE <<>>
         IN  MockUserName(Tail(messages),
                          IF name_part # <<>> /\ LowerText(name_part) # <<"unknown">>
                          THEN name_part ELSE user_name)

\* MockLanguageModel.__call__: the key of the response
MockResponseKey(messages) ==
    IF messages = <<>> \/ ~IsHuman(Last(messages))
    THEN "fallback"
    ELSE LET content == LowerText(Last(messages).content)
         IN  IF Contains(content, "what") /\ Contains(content, "name")
             THEN "name_recall"
             ELSE IF \E word \in {"task", "todo", "reminder", "schedule"} : Contains(content, word)
             THEN "task_added"
             ELSE IF Len(messages) = 3 /\ messages[1].type = "system" /\ messages[2].type = "ai"
             THEN "name_intro"
             ELSE "fallback"

\* the names get_model gives its MockLanguageModel instances
MockNames == {"openai", "error-fallback-openai"}

MockCall_FirstCallGreets(name, call_count, messages) ==
    [ raises |-> FALSE,
      content |-> MockResponse(IF call_count = 0 THEN "greeting" ELSE MockResponseKey(messages),
                               MockUserName(messages, <<"user">>)) ]

\* MockLanguageModel.__call__ of the instance of this name that was called
\* call_count times before: the name and the count are only logged
MockCall(name, call_count, messages) ==
    [ raises |-> FALSE,
      content |-> MockResponse(MockResponseKey(messages), MockUserName(messages, <<"user">>)) ]

\* what calling the live model does: it raises, or returns one of these texts
SaLiveReplies ==
    { [raises |-> TRUE, content |-> <<>>],
      [raises |-> FALSE, content |-> <<"Sure.">>],
      [raises |-> FALSE, content |-> <<"Hi!", "What's your name">>] }

\* the replies model(messages) may give
SaReplies(is_mocked, messages) ==
    IF is_mocked
    THEN \* whichever instance get_model's cache holds answers, at whatever count
         { MockCall(name, call_count, messages) :
             name \in MockNames, call_count \in 0..MaxCallCount }
    ELSE SaLiveReplies

\* the lines a user may type at run_agent's prompt
SaInputs ==
    { <<>>, <<"Bob">>, <<"my name is", "Bob", WS>>, <<"What's my name">>, <<"Add a task">>,
      <<WS, "EXIT">>, <<"EXIT">> }

----------------------------------------------------------------------------
(* standalone_bond7_agent.py: handlers *)

\* AgentState()
AgentState ==
    [ user |-> [name |-> None], todos |-> <<>>, current_step |-> "initialize_agent",
      messages |-> <<>>, skills_used |-> <<>> ]

\* AgentState whose default values belong to the class
AgentStateShared_ClassDefaults == {"user", "todos", "messages", "skills_used"}

\* the keys whose value an AgentState shares with the instances created before
\* it: __init__ evaluates the dict literal, and the dict and list literals in
\* it, on every call, so there are none
AgentStateShared == {}

\* AgentState(), created by a caller that holds the state earlier
NewAgentState(earlier) ==
    [ k \in DOMAIN AgentState |->
        IF k \in AgentStateShared /\ HasKey(earlier, k) THEN earlier[k] ELSE AgentState[k] ]

\* the state earlier as it reads once the state later was written: a value the
\* two share shows what was written
SeenFrom(earlier, later) ==
    [ k \in DOMAIN earlier |->
        IF k \in AgentStateShared /\ HasKey(later, k) THEN later[k] ELSE earlier[k] ]

initialize_agent_sa(st) == Ret(st, [current_step |-> "generate_greeting"])

generate_greeting_sa(st, reply) ==
    LET user_name == DictGet(st.user, "name", None)
        greeting == IF ~reply.raises THEN reply.content
                    ELSE IF Truthy(user_name) THEN SaHelloName(user_name)
                    ELSE SaHelloStranger
    IN  Ret(st, [ messages |-> GreetingMessages(SaGreetingPrompt, greeting),
                  current_step |-> GreetingNextStep ])

\* the last AI message before the last message, or <<>> when there is none
PrevAIMessages(messages) == SelectSeq(SubSeq(messages, 1, Len(messages) - 1), IsAI)

\* whether process_input takes the last human message for the user's name
IsNameIntroduction(messages) ==
    /\ Len(messages) >= 2
    /\ PrevAIMessages(messages) # <<>>
    /\ Contains(LowerText(Last(PrevAIMessages(messages)).content), "what's your name")

\* the name process_input extracts from the user's line
ExtractName(content) ==
    IF Splits(content, "my name is")
    THEN Strip(AfterFirst(content, "my name is"))
    ELSE Strip(content)

\* the response taken from the model's reply whether the call raised or not
SaResponse_NoFallback(reply) == AIMessage(reply.content)

\* the response process_input appends: the model's, or the canned one if it raised
SaResponse(reply) ==
    IF reply.raises THEN AIMessage(SaAnythingSpecific) ELSE AIMessage(reply.content)

\* skills_used after a user line: task_management is recorded once
TrackSkill(skills_used, content) ==
    IF Contains(LowerText(content), "task")
    THEN AppendIfAbsent(skills_used, "task_management")
    ELSE skills_used

\* a list the state holds is written in place; a default made by .get is not
InPlace(st, k, v) == IF HasKey(st, k) THEN DictSet(st, k, v) ELSE st

\* process_input that writes the name to a copy of the user record
process_input_sa_NameOnCopy(st, reply) ==
    LET messages == DictGet(st, "messages", <<>>)
    IN  IF HumanMessages(messages) = <<>>
        THEN Ret(st, st)
        ELSE LET last_human_message == Last(HumanMessages(messages))
                 st2 == st
                 messages2 == Append(messages, SaResponse(reply))
                 skills_used == TrackSkill(DictGet(st2, "skills_used", <<>>),
                                           last_human_message.content)
                 st3 == InPlace(InPlace(st2, "messages", messages2),
                                "skills_used", skills_used)
             IN  Ret(st3, DictMerge(st3, [ messages |-> messages2,
                                           skills_used |-> skills_used,
                                           current_step |-> "process_input" ]))

process_input_sa(st, reply) ==
    LET messages == DictGet(st, "messages", <<>>)
    IN  IF HumanMessages(messages) = <<>>
        THEN Ret(st, st)
        ELSE LET last_human_message == Last(HumanMessages(messages))
                 st2 == IF IsNameIntroduction(messages)
                        THEN [st EXCEPT !.user = DictSet(@, "name",
                                                    ExtractName(last_human_message.content))]
                        ELSE st
                 messages2 == Append(messages, SaResponse(reply))
                 skills_used == TrackSkill(DictGet(st2, "skills_used", <<>>),
                                           last_human_message.content)
                 st3 == InPlace(InPlace(st2, "messages", messages2),
                                "skills_used", skills_used)
             IN  Ret(st3, DictMerge(st3, [ messages |-> messages2,
                                           skills_used |-> skills_used,
                                           current_step |-> "process_input" ]))

----------------------------------------------------------------------------
(* standalone_bond7_agent.py: run_agent *)

\* run_agent up to its loop: the state is created, initialized and greeted
SaStart ==
    /\ prog = "sa_run"
    /\ pc = "start"
    /\ LET s0 == AgentState
           s1 == DictMerge(s0, initialize_agent_sa(s0).out)
       IN  \E reply \in SaReplies(mocked, <<SystemMessage(SaGreetingPrompt)>>) :
             LET r == generate_greeting_sa(s1, reply)
                 c == Call("generate_greeting", s1, <<>>, TRUE, reply, r)
             IN  /\ state' = DictMerge(r.st, r.out)
                 /\ last' = c
                 /\ hist' = Record(hist, c)
    /\ pc' = "loop"
    /\ UNCHANGED <<prog, current_step, llm_ok, merger, result, turns, mocked, calls, line, previous>>

\* one iteration of run_agent's loop
SaTurn ==
    /\ prog = "sa_run"
    /\ pc = "loop"
    /\ turns < MaxTurns
    /\ turns' = turns + 1
    /\ \E typed \in SaInputs :
         LET user_input == Strip(typed)
         IN  /\ line' = typed
             /\ IF LowerText(user_input) \in ExitWords
                THEN /\ pc' = "exited"
                     /\ UNCHANGED <<state, last, hist>>
                ELSE LET pre == AppendMessage(state, HumanMessage(user_input))
                     IN  \E reply \in SaReplies(mocked, pre.messages) :
                           LET r == process_input_sa(pre, reply)
                               c == Call("process_input", pre, user_input, TRUE, reply, r)
                           IN  /\ state' = DictMerge(r.st, r.out)
                               /\ last' = c
                               /\ hist' = Record(hist, c)
                               /\ pc' = "loop"
    /\ UNCHANGED <<prog, current_step, llm_ok, merger, result, mocked, calls, previous>>

----------------------------------------------------------------------------
(* standalone_bond7_agent.py: handlers called on a state the caller provides,
   as test_local_mem-example.py does *)

\* AgentState() with user fields set and a first message appended by the caller
SaGivenStates ==
    { [AgentState EXCEPT !.user = u, !.messages = m] :
        u \in { [name |-> None], [name |-> <<"Bob">>],
                [name |-> None, email |-> <<"test@example.com">>] },
        m \in { <<>>, <<AIMessage(SaHelloStranger)>> } }

SaDirectInputs == { None, <<"My name is", "Bob">>, <<"my name is", "Bob">> }

\* the programs that call the handlers on their own state: a caller with one
\* state, and test_memory_persistence, which creates a second state
SaCallProgs == {"sa_call", "sa_mem"}

\* the caller runs generate_greeting and merges its output into the state, or
\* appends the user's line and replaces the state by process_input's result
SaDirectCall ==
    /\ prog \in SaCallProgs
    /\ pc = "loop"
    /\ calls < MaxDirectCalls
    /\ calls' = calls + 1
    /\ \/ \E reply \in SaReplies(mocked, <<SystemMessage(SaGreetingPrompt)>>) :
            LET r == generate_greeting_sa(state, reply)
            IN  /\ state' = DictMerge(r.st, r.out)
                /\ last' = Call("generate_greeting", state, None, TRUE, reply, r)
       \/ \E user_input \in SaDirectInputs :
            LET pre == IF user_input = None THEN state
                       ELSE AppendMessage(state, HumanMessage(user_input))
            IN  \E reply \in SaReplies(mocked, pre.messages) :
                  LET r == process_input_sa(pre, reply)
                  IN  /\ state' = r.out
                      /\ last' = Call("process_input", pre, user_input,
                                      HumanMessages(pre.messages) # <<>>, reply, r)
    /\ previous' = SeenFrom(previous, state')
    /\ UNCHANGED <<prog, current_step, pc, llm_ok, merger, hist, result, turns, mocked, line>>

\* the emails test_memory_persistence may set on a state it created
SaEmails == { None, <<"test@example.com">> }

\* test_memory_persistence creates a new AgentState after its interactions and
\* sets the user's email on it; the state it held is reachable no more, and is
\* kept here to be compared with
SaNewState ==
    /\ prog = "sa_mem"
    /\ pc = "loop"
    /\ DOMAIN previous = {}
    /\ \E email \in SaEmails :
         LET new_state == NewAgentState(state)
         IN  /\ state' = IF email = None THEN new_state
                         ELSE [new_state EXCEPT !.user = DictSet(@, "email", email)]
             /\ previous' = SeenFrom(state, state')
    /\ UNCHANGED <<prog, current_step, pc, llm_ok, merger, last, hist, result, turns, mocked, calls, line>>

----------------------------------------------------------------------------
(* 007-workflow.py: generate_greeting, called on a state the caller provides *)

W007SystemPrompt == <<"You are 007, a personal productivity agent.">>

generate_greeting_007(st) ==
    LET user_name == DictGet(st.user, "name", None)
        greeting == IF Truthy(user_name) THEN B7HelloName(user_name) ELSE B7HelloStranger
    IN  Ret(st, [ messages |-> GreetingMessages(W007SystemPrompt, greeting),
                  current_step |-> GreetingNextStep ])

\* the output is merged as AgentState declares: add_messages for the messages
W007DirectCall ==
    /\ prog = "w007_call"
    /\ pc = "loop"
    /\ calls < MaxDirectCalls
    /\ calls' = calls + 1
    /\ LET r == generate_greeting_007(state)
       IN  /\ state' = B7Reduce(r.st, r.out)
           /\ last' = Call("generate_greeting", state, None, FALSE, NoReply, r)
    /\ UNCHANGED <<prog, current_step, pc, llm_ok, merger, hist, result, turns, mocked, line, previous>>

----------------------------------------------------------------------------
(* workflow.py: the graph validate -> process -> format, run by app.invoke *)

\* required_fields, in the order the dict and its lists are iterated
PySections == <<"customer", "task", "vendor">>

PyRequired ==
    [ customer |-> <<"name", "email", "phoneNumber", "zipCode">>,
      task |-> <<"description", "category">>,
      vendor |-> <<"name", "email", "phoneNumber">> ]

\* the channels of WorkflowState
PyChannels == {"customer", "task", "vendor", "summary"}

\* the input of the test execution
PyInputData ==
    [ customer |-> [ name |-> "John Smith", email |-> "john.smith@example.com",
                     phoneNumber |-> "555-123-4567", zipCode |-> "94105" ],
      task |-> [description |-> "Kitchen renovation", category |-> "Remodeling"],
      vendor |-> [ name |-> "Bay Area Remodelers", email |-> "contact@bayarearemodelers.com",
                   phoneNumber |-> "555-987-6543" ] ]

\* d without the keys of a set
Without(d, keys) == [k \in DOMAIN d \ keys |-> d[k]]

\* the inputs a caller may give: the test's input, with sections and fields left out
PySectionChoices(section) ==
    { PyInputData[section] } \cup
    { Without(PyInputData[section], {PyRequired[section][i]}) :
        i \in {1, Len(PyRequired[section])} }

PyInputs ==
    { Without([customer |-> c, task |-> t, vendor |-> v], absent) :
        c \in PySectionChoices("customer"), t \in PySectionChoices("task"),
        v \in PySectionChoices("vendor"),
        absent \in { {}, {"customer"}, {"task"}, {"vendor"}, {"customer", "vendor"} } }

\* an exception with this message left the node
PyRaise(st, message) == [st |-> st, out |-> message, raised |-> TRUE]

\* the first required field, from position i on, that the section lacks; 0 if none
RECURSIVE PyMissingField(_, _, _)
PyMissingField(fields, d, i) ==
    IF i > Len(fields) THEN 0
    ELSE IF fields[i] \notin DOMAIN d THEN i
    ELSE PyMissingField(fields, d, i + 1)

\* validate_input that looks for the sections only
RECURSIVE validate_input_py_SectionsOnly(_, _)
validate_input_py_SectionsOnly(st, i) ==
    IF i > Len(PySections) THEN Ret(st, st)
    ELSE LET section == PySections[i]
         IN  IF section \notin DOMAIN st
             THEN PyRaise(st, <<"Missing", section, "data">>)
             ELSE validate_input_py_SectionsOnly(st, i + 1)

\* validate_input, from section i on
RECURSIVE validate_input_py(_, _)
validate_input_py(st, i) ==
    IF i > Len(PySections) THEN Ret(st, st)
    ELSE LET section == PySections[i]
         IN  IF section \notin DOMAIN st
             THEN PyRaise(st, <<"Missing", section, "data">>)
             ELSE LET f == PyMissingField(PyRequired[section], st[section], 1)
                  IN  IF f # 0
                      THEN PyRaise(st, <<"Missing", PyRequired[section][f], "in", section>>)
                      ELSE validate_input_py(st, i + 1)

\* a subscript of a key the dict lacks raises KeyError
PyHas(st, section, field) == section \in DOMAIN st /\ field \in DOMAIN st[section]

process_data(st) ==
    IF ~( PyHas(st, "task", "category") /\ PyHas(st, "customer", "name")
          /\ PyHas(st, "customer", "zipCode") /\ PyHas(st, "vendor", "name") )
    THEN PyRaise(st, <<"KeyError">>)
    ELSE Ret(st, [ summary |-> << "New", st.task.category, "project for", st.customer.name,
                                  st.customer.zipCode, "assigned to", st.vendor.name >> ])

format_output(st) ==
    IF ~( PyHas(st, "customer", "email") /\ PyHas(st, "vendor", "email")
          /\ "summary" \in DOMAIN st )
    THEN PyRaise(st, <<"KeyError">>)
    ELSE Ret(st, [ customer_email |-> st.customer.email,
                   vendor_email |-> st.vendor.email,
                   project_summary |-> st.summary ])

\* the nodes and edges of the graph
PyNodes == {"validate", "process", "format"}

PySuccessor(node) ==
    CASE node = "validate" -> "process"
      [] node = "process" -> "format"
      [] node = "format" -> "finish"

PyCall(node, st) ==
    CASE node = "validate" -> validate_input_py(st, 1)
      [] node = "process" -> process_data(st)
      [] node = "format" -> format_output(st)

\* the graph writes the keys of a node's output that are channels of the state
PyWrite(st, out) ==
    [k \in DOMAIN st \cup (DOMAIN out \cap PyChannels) |-> IF k \in DOMAIN out THEN out[k] ELSE st[k]]

\* what the graph does with an output that names no channel: the library at
\* hand either drops it or raises InvalidUpdateError
PyNoChannelOutcomes == {"dropped", "InvalidUpdateError"}

\* one node of the graph runs inside app.invoke; an exception ends the script,
\* the end of the graph makes the state the result of app.invoke
PyNode ==
    /\ prog = "wf_py"
    /\ pc \in PyNodes
    /\ LET r == PyCall(pc, state)
           c == Call(pc, state, <<>>, FALSE, NoReply, r)
       IN  /\ last' = c
           /\ hist' = Record(hist, c)
           /\ IF r.raised
              THEN /\ pc' = "crashed"
                   /\ state' = r.st
                   /\ UNCHANGED result
              ELSE \E outcome \in PyNoChannelOutcomes :
                     IF DOMAIN r.out \cap PyChannels = {} /\ outcome = "InvalidUpdateError"
                     THEN /\ pc' = "crashed"
                          /\ state' = r.st
                          /\ UNCHANGED result
                     ELSE /\ state' = PyWrite(r.st, r.out)
                          /\ pc' = IF PySuccessor(pc) = "finish" THEN "done" ELSE PySuccessor(pc)
                          /\ result' = IF PySuccessor(pc) = "finish" THEN state' ELSE result
    /\ UNCHANGED <<prog, current_step, llm_ok, merger, turns, mocked, calls, line, previous>>

----------------------------------------------------------------------------

Progs ==
    { "wf_main", "wf_loop", "wf_sent", "b7_main", "b7_call", "sa_run", "sa_call", "sa_mem",
      "w007_call", "wf_py" }

Init ==
    /\ prog \in Progs
    /\ llm_ok \in IF prog \in {"sa_run", "sa_call", "sa_mem", "w007_call"} THEN {TRUE} ELSE BOOLEAN
    /\ mocked \in IF prog \in {"sa_run", "sa_call", "sa_mem"} THEN BOOLEAN ELSE {FALSE}
    /\ merger \in IF prog = "wf_sent" THEN {"main", "update_state"} ELSE {"main"}
    /\ state \in CASE prog \in {"wf_main", "wf_sent"} -> {WfInitialState}
                   [] prog = "wf_loop" -> {WfEntryState}
                   [] prog = "b7_main" -> {[messages |-> <<>>]}
                   [] prog \in {"b7_call", "w007_call"} -> B7GivenStates
                   [] prog = "sa_run" -> {AgentState}
                   [] prog \in SaCallProgs -> SaGivenStates
                   [] prog = "wf_py" -> PyInputs
    /\ current_step \in CASE prog = "wf_main" -> {"validate"}
                          [] prog = "wf_loop" -> WfEntrySteps
                          [] prog = "wf_sent" -> {"analyze_sentiment"}
                          [] OTHER -> {"-"}
    /\ pc = IF prog \in {"b7_main", "sa_run"} THEN "start"
            ELSE IF prog = "wf_py" THEN "validate" ELSE "loop"
    /\ last = NoCall
    /\ hist = <<>>
    /\ result = <<>>
    /\ turns = 0
    /\ calls = 0
    /\ line = None
    /\ previous = <<>>

Next ==
    \/ WfMainStep
    \/ SentimentTurn
    \/ B7Start
    \/ B7Node
    \/ B7UserInput
    \/ B7DirectCall
    \/ SaStart
    \/ SaTurn
    \/ SaDirectCall
    \/ SaNewState
    \/ W007DirectCall
    \/ PyNode

Spec == Init /\ [][Next]_vars

\* the loop that re-enters analyze_sentiment keeps running: while a turn can be
\* taken, one is taken
FairSpec == Spec /\ WF_vars(SentimentTurn)

\* main's while loop keeps running: while an iteration can be made, one is made
MainFairSpec == Spec /\ WF_vars(WfMainStep)

----------------------------------------------------------------------------
(* Claims *)

WfProgs == {"wf_main", "wf_sent"}

\* the elements of a list
Range(s) == { s[i] : i \in 1..Len(s) }

\* the classifier's reply is neither POSITIVE nor NEGATIVE
Ambiguous(reply) ==
    /\ ~reply.raises
    /\ UpperText(Strip(reply.content)) \notin { <<"POSITIVE">>, <<"NEGATIVE">> }

\* C1: in workflow_fixed, from sentiment_attempts = 0, after any sequence of
\* analyze_sentiment invocations (any reply, raising or not) the counter is at
\* most 3, in the state and in the output of the call
C1_AttemptsNeverExceedCap ==
    prog \in WfProgs =>
        /\ state.sentiment_attempts <= 3
        /\ (last.op = "analyze_sentiment" /\ HasKey(last.out, "sentiment_attempts")
              => last.out.sentiment_attempts <= 3)

\* analyze_sentiment was invoked with the counter already at the cap
C1_Witness ==
    /\ prog = "wf_sent"
    /\ last.op = "analyze_sentiment"
    /\ last.pre.sentiment_attempts = 3
    /\ state.sentiment_attempts = 3

\* the first n recorded calls all got an ambiguous reply
FirstAmbiguous(n) ==
    /\ Len(hist) >= n
    /\ \A i \in 1..n : hist[i].op = "analyze_sentiment" /\ Ambiguous(hist[i].reply)

\* call i returned exactly this one message and this step
Returned(i, text, step) ==
    /\ hist[i].out.messages = <<AIMessage(text)>>
    /\ hist[i].out.current_step = step

\* C2: from sentiment_attempts = 0 with a user turn in the log, three ambiguous
\* replies in a row: the first two invocations each return one re-prompt and keep
\* current_step = analyze_sentiment, the third returns the one hand-off message
\* and sets current_step to END; the hand-off message is produced exactly once
C2_ThirdAmbiguousHandsOff ==
    prog = "wf_sent" /\ llm_ok =>
        /\ \A n \in 1..2 : FirstAmbiguous(n) => Returned(n, WfReprompt, "analyze_sentiment")
        /\ FirstAmbiguous(3) =>
              /\ Returned(3, WfHandOff, END)
              /\ Cardinality({ i \in 1..3 :
                     AIMessage(WfHandOff) \in Range(hist[i].out.messages) }) = 1

\* three ambiguous replies in a row were given, starting from a counter of 0
C2_Witness == prog = "wf_sent" /\ llm_ok /\ FirstAmbiguous(3)

\* C3: no execution stays in analyze_sentiment forever: whatever the classifier
\* does, raising on every call included, re-entering analyze_sentiment with a user
\* turn present reaches another step
C3_LeavesAnalyzeSentiment ==
    (prog = "wf_sent") => <>(current_step # "analyze_sentiment")

\* the programs whose driver is the interactive loop of the source
LoopProgs == {"wf_main", "sa_run"}

\* the log of state s, empty if s has none
Log(s) == DictGet(s, "messages", <<>>)

\* one step keeps the log as a prefix of the next log, at every stage of a step
\* that invokes a handler: the user's line, the handler's writes in place, the
\* merge of its output
LogOnlyGrows ==
    prog \in LoopProgs =>
        /\ IsPrefix(Log(state), Log(state'))
        /\ (last' # last =>
              /\ IsPrefix(Log(state), Log(last'.pre))
              /\ IsPrefix(Log(last'.pre), Log(last'.st))
              /\ IsPrefix(Log(last'.st), Log(state')))

\* C4: in workflow_fixed.main and in run_agent, across every handler invocation,
\* merge and user input, the length of the message log never decreases and no
\* logged turn is removed or reordered
C4_MessageLogNeverShrinks == [][LogOnlyGrows]_vars

\* workflow_fixed.main ran to the end: greeting, name, thanks, schedule, closing
C4_Witness ==
    /\ prog = "wf_main"
    /\ pc = "done"
    /\ last.op = "process_schedule"
    /\ Len(state.messages) = 6
    /\ Len(last.pre.messages) = 5

\* C5: when main merges a handler's output into the state, a list under
\* 'messages' is appended to the log the state had, and every scalar entry
\* overwrites the state's value
C5_MergeAppendsMessages ==
    (prog \in WfProgs /\ merger = "main" /\ last.op # "none" /\ ~last.raised) =>
        /\ HasKey(last.out, "messages") =>
              state.messages = last.st.messages \o last.out.messages
        /\ \A k \in DOMAIN last.out \ ({"messages", "current_step"} \cup WfDictKeys) :
              state[k] = last.out[k]

\* C6: in workflow_fixed.main current_step is always a key of the registry or
\* '__end__', and the 'Invalid step' branch is never taken
C6_StepAlwaysRegistered ==
    prog = "wf_main" =>
        /\ current_step \in WfRegistry \cup {"__end__"}
        /\ pc # "invalid"

\* main reached the terminal sentinel after the user gave a name and a schedule
C6_Witness ==
    /\ prog = "wf_main"
    /\ current_step = "__end__"
    /\ last.out.current_step = END
    /\ Len(HumanMessages(state.messages)) = 2

B7Progs == {"b7_main", "b7_call"}

SaProgs == {"sa_run", "sa_call"}

\* the last call was workflowbond7's process_input
B7ProcessedInput == prog \in B7Progs /\ last.op = "process_input"

\* C7: in workflowbond7, whatever the state and the classifier's response, the
\* current_step that process_input returns is a label the conditional edge out of
\* process_input routes
C7_ProcessInputRoutable ==
    (B7ProcessedInput /\ ~last.raised) => last.out.current_step \in B7Routes

\* the classifier answered process_input, and the answer is no JSON object
ParseFailed ==
    /\ B7ProcessedInput
    /\ last.asked
    /\ ~last.reply.raises
    /\ last.reply.content.form # "object"

\* the fields of s that a failed parse must leave alone
Kept(s) == [ k \in {"skills_used", "todos", "messages"} \cap DOMAIN s |-> s[k] ]

\* C8: in workflowbond7 process_input, when the classifier's response does not
\* parse into an object with the intent, the step returns only current_step =
\* general_question, does not raise, and skills_used, todos and the message log
\* are what they were before the call, in place and after the output is applied
C8_ParseFailureDefaults ==
    ParseFailed =>
        /\ ~last.raised
        /\ last.out = [current_step |-> "general_question"]
        /\ Kept(last.st) = Kept(last.pre)
        /\ Kept(state) = Kept(last.pre)

\* the classifier answered with plain text while a skill and a todo were recorded
C8_Witness ==
    /\ ParseFailed
    /\ last.reply.content.form = "text"
    /\ last.pre.skills_used # <<>>
    /\ last.pre.todos # <<>>

\* no element of the list occurs at two positions
NoDuplicates(list) == \A i, j \in 1..Len(list) : list[i] = list[j] => i = j

\* the label that the last process_input call had to record
RecordedLabel ==
    IF prog \in B7Progs
    THEN DictGet(last.reply.content.fields, "intent", "general_question")
    ELSE "task_management"

\* the last process_input call recorded a label
LabelRecorded ==
    /\ last.op = "process_input"
    /\ ~last.raised
    /\ HasKey(last.out, "skills_used")
    /\ IF prog \in B7Progs
       THEN last.asked /\ ~last.reply.raises /\ last.reply.content.form = "object"
       ELSE prog \in SaProgs /\ RecordedLabel \in Range(last.out.skills_used)

\* C9: skills_used never holds a label twice, and recording a label that is
\* already present leaves skills_used as it was (workflowbond7 process_input for
\* the intent, standalone process_input for 'task_management')
C9_SkillsRecordedOnce ==
    prog \in B7Progs \cup SaProgs =>
        /\ HasKey(state, "skills_used") => NoDuplicates(state.skills_used)
        /\ LabelRecorded =>
              /\ NoDuplicates(last.out.skills_used)
              /\ RecordedLabel \in Range(last.out.skills_used)
              /\ (RecordedLabel \in Range(last.pre.skills_used)
                    => /\ last.out.skills_used = last.pre.skills_used
                       /\ state.skills_used = last.pre.skills_used)

\* the classifier named an intent that skills_used already held
C9_Witness ==
    /\ prog = "b7_main"
    /\ LabelRecorded
    /\ RecordedLabel \in Range(last.pre.skills_used)

\* the assistant turns of a log
AIMessages(msgs) == SelectSeq(msgs, IsAI)

\* the programs whose message log is merged by the add_messages reducer
ReducerProgs == B7Progs \cup {"w007_call"}

\* C10: in 007-workflow, workflowbond7 and standalone, generate_greeting does not
\* raise, returns current_step = process_input and exactly one assistant turn,
\* and the log has one assistant turn more than before where the reducer appends
\* the output and exactly that turn where run_agent assigns it, with the name
\* known or not and the model call failing or not
C10_GreetingOneTurn ==
    last.op = "generate_greeting" =>
        /\ ~last.raised
        /\ last.out.current_step = "process_input"
        /\ Len(AIMessages(last.out.messages)) = 1
        /\ prog \in ReducerProgs =>
              Len(AIMessages(state.messages)) = Len(AIMessages(Log(last.pre))) + 1
        /\ prog \in SaProgs => AIMessages(state.messages) = AIMessages(last.out.messages)

\* the standalone greeting ran with the name known and the model call failing
C10_Witness ==
    /\ prog = "sa_call"
    /\ last.op = "generate_greeting"
    /\ last.asked
    /\ last.reply.raises
    /\ Truthy(last.pre.user.name)

\* process_input ran on a state with no name whose latest message is the
\* user's, with text left after trimming
NameUnsetAndUserSpoke ==
    /\ B7ProcessedInput
    /\ last.pre.messages # <<>>
    /\ DictGet(last.pre.user, "name", None) = None
    /\ IsHuman(Last(last.pre.messages))
    /\ Strip(Last(last.pre.messages).content) # <<>>

\* C11: in workflowbond7 process_input, when user.name is unset and the latest
\* turn is the user's with non-empty trimmed text, the step does not raise, sets
\* user.name to the trimmed text, returns exactly one acknowledgement assistant
\* turn and current_step = process_input, and does not call the classifier
C11_NameCaptured ==
    NameUnsetAndUserSpoke =>
        LET name == Strip(Last(last.pre.messages).content)
        IN  /\ ~last.raised
            /\ ~last.asked
            /\ last.out.user.name = name
            /\ state.user.name = name
            /\ last.out.messages = <<AIMessage(B7NiceToMeet(name))>>
            /\ last.out.current_step = "process_input"

\* the user's line had blanks around the name, and the name was captured
C11_Witness ==
    /\ NameUnsetAndUserSpoke
    /\ Strip(Last(last.pre.messages).content) # Last(last.pre.messages).content
    /\ Truthy(state.user.name)

\* the name the state holds for the user, None when it holds none
UserName(s) == IF HasKey(s, "user") THEN DictGet(s.user, "name", None) ELSE None

\* a step leaves a name that was set as it is
NameStaysOnceSet ==
    (prog \in B7Progs \cup SaProgs /\ Truthy(UserName(state)))
        => UserName(state') = UserName(state)

\* C12: once user.name is set to a non-empty value, no later user turn changes
\* it, in workflowbond7 process_input and in standalone process_input, whatever
\* the responder's earlier replies contain
C12_NameCapturedOnce == [][NameStaysOnceSet]_vars

\* the user record of the state, empty when it holds none
User(s) == IF HasKey(s, "user") THEN s.user ELSE <<>>

\* the fields of the user record that have a value
IdentifyingFields(s) == { k \in DOMAIN User(s) : User(s)[k] # None /\ User(s)[k] # <<>> }

\* a step leaves every field of user that has a value with a value
FieldsKeepValue ==
    prog \in B7Progs \cup SaProgs =>
        IdentifyingFields(state) \subseteq IdentifyingFields(state')

\* a step of identity capture leaves the fields of user other than name as they are
CaptureKeepsOtherFields ==
    (prog \in B7Progs \cup SaProgs /\ UserName(state') # UserName(state)) =>
        \A k \in DOMAIN User(state) \ {"name"} :
            k \in DOMAIN User(state') /\ User(state')[k] = User(state)[k]

\* C13: every identifying field of user that has a value (the name, an email the
\* caller placed in user) keeps a value through every later step, and identity
\* capture does not remove or unset the fields of user other than name
C13_IdentityFieldsKept == [][FieldsKeepValue /\ CaptureKeepsOtherFields]_vars

\* the programs that read the user's lines at a prompt
PromptProgs == {"b7_main", "sa_run"}

\* the line is exit, quit or bye, in any letter case
IsExitLine(l) == Len(l) = 1 /\ Lower(l[1]) \in {"exit", "quit", "bye"}

\* a step that reads an exit word ends the loop and leaves the state, the record
\* of handler calls and the last result as they are
ExitEndsLoop ==
    (prog \in PromptProgs /\ turns' = turns + 1 /\ IsExitLine(line')) =>
        /\ pc' = "exited"
        /\ UNCHANGED <<state, result, last, hist, calls>>

\* the driver takes no step after its loop ended on an exit word
NoStepAfterExit == pc = "exited" => UNCHANGED vars

\* C14: in run_agent and in workflowbond7 main, when the line typed at the prompt
\* is exit, quit or bye in any letter case, the loop ends, no handler is invoked
\* for that line, and the message log is left unchanged
C14_ExitEndsSession == [][ExitEndsLoop /\ NoStepAfterExit]_vars

\* the user typed EXIT at the second prompt of run_agent, after a handled turn
C14_Witness ==
    /\ prog = "sa_run"
    /\ pc = "exited"
    /\ turns = 2
    /\ IsExitLine(line)
    /\ last.op = "process_input"

\* a node raised, or the conditional edge had no entry, while main handled a line
\* of the user
B7TurnFailed ==
    /\ prog = "b7_main"
    /\ pc \in B7Nodes
    /\ turns > 0
    /\ \/ last'.raised
       \/ pc = "process_input" /\ state'.current_step \notin B7Routes

\* process_input raised while run_agent handled a line of the user
SaTurnFailed == prog = "sa_run" /\ turns' = turns + 1 /\ pc' # "exited" /\ last'.raised

\* after a failed turn the driver is at its prompt again
FailedTurnGoesOn ==
    /\ B7TurnFailed => pc' = "input"
    /\ SaTurnFailed => pc' = "loop"
    /\ (prog \in PromptProgs /\ turns' > 0) => pc' \notin {"crashed", "error"}

\* C15: in run_agent and workflowbond7 main, when handling a user turn raises,
\* the driver returns to waiting for the next line: the loop does not end and
\* the process does not crash
C15_FailedTurnGoesOn == [][FailedTurnGoesOn]_vars

\* the classifier raised in the user's first turn and main waits for the second
C15_Witness ==
    /\ prog = "b7_main"
    /\ pc = "input"
    /\ turns = 1
    /\ last.raised
    /\ last.op \in {"process_input", "general_question"}

\* an iteration that finds a step that is neither registered nor the terminal
\* sentinel reports it and leaves the loop: no handler call, no write to the state
InvalidStepHalts ==
    (prog \in WfMainProgs /\ pc = "loop" /\ current_step \notin WfRegistry \cup {"__end__"}) =>
        /\ pc' = "invalid"
        /\ UNCHANGED <<state, current_step, last, hist>>

\* nothing happens after the loop was left on an invalid step
HaltedStays == pc = "invalid" => UNCHANGED vars

\* C16: in workflow_fixed.main, if current_step is neither '__end__' nor a key of
\* the registry, the driver reports the invalid step and halts; no handler is
\* invoked and the state is not modified in that iteration or afterwards
C16_InvalidStepHalts == [][InvalidStepHalts /\ HaltedStays]_vars

\* process_notes left the label 'end', and the loop halted on it
C16_Witness ==
    /\ prog = "wf_loop"
    /\ pc = "invalid"
    /\ current_step = "end"
    /\ last.op = "process_notes"
    /\ state = last.st

\* the last call returned exactly one assistant turn and this step
ReturnedOneTurn(step) ==
    /\ ~last.raised
    /\ HasKey(last.out, "messages")
    /\ Len(last.out.messages) = 1
    /\ IsAI(last.out.messages[1])
    /\ last.out.current_step = step

\* C17: in workflowbond7, add_todo, view_todos and general_question each return
\* exactly one assistant turn and current_step = process_input for every state
\* (also when the model client is unavailable), and end_conversation returns
\* exactly one farewell turn and the terminal sentinel
C17_HandlersReturnOneTurn ==
    prog \in B7Progs =>
        /\ last.op \in {"add_todo", "view_todos", "general_question"}
              => ReturnedOneTurn("process_input")
        /\ last.op = "end_conversation" => ReturnedOneTurn(END)

\* C18: each invocation of add_todo makes todos one entry longer (from 0 to 1 on
\* an empty list), keeps every earlier entry in its place, in the returned list
\* and in the state, and returns one assistant turn that confirms the task
C18_AddTodoAddsOne ==
    (prog \in B7Progs /\ last.op = "add_todo") =>
        LET task == Last(last.pre.messages).content
        IN  /\ ~last.raised
            /\ Len(last.out.todos) = Len(last.pre.todos) + 1
            /\ IsPrefix(last.pre.todos, last.out.todos)
            /\ Last(last.out.todos).task = task
            /\ state.todos = last.out.todos
            /\ last.out.messages = <<AIMessage(B7Added(task))>>

\* add_todo ran on a list that already held a todo
C18_Witness ==
    /\ prog \in B7Progs
    /\ last.op = "add_todo"
    /\ Len(last.pre.todos) = 1
    /\ Len(state.todos) = 2

\* the todos of a state, empty when it holds none
Todos(s) == DictGet(s, "todos", <<>>)

\* a step of a workflowbond7 session keeps every todo in its place, and changes
\* todos only by a call of add_todo
TodosOnlyGrow ==
    prog \in B7Progs =>
        /\ IsPrefix(Todos(state), Todos(state'))
        /\ Todos(state') # Todos(state) => last'.op = "add_todo"

\* C19: across any sequence of handler invocations in a session todos never
\* loses an entry, and only add_todo changes it: process_input, view_todos,
\* general_question, end_conversation and end_session leave todos as it was
C19_TodosNeverShrink == [][TodosOnlyGrow]_vars

\* a handler other than add_todo ran in a session that holds a todo
C19_Witness ==
    /\ prog = "b7_main"
    /\ turns > 0
    /\ Len(Todos(state)) > 0
    /\ last.op \in {"process_input", "view_todos", "general_question", "end_conversation"}
    /\ Todos(last.pre) = Todos(state)

\* every instance of the scripted responder, at every call count, answers this
\* message sequence with the same text
SameTextFromEveryInstance(messages) ==
    \A n1, n2 \in MockNames : \A c1, c2 \in 0..MaxCallCount :
        MockCall(n1, c1, messages).content = MockCall(n2, c2, messages).content

\* the message sequence the last handler call gave to the model
MessagesGiven ==
    IF last.op = "generate_greeting"
    THEN <<SystemMessage(SaGreetingPrompt)>>
    ELSE last.pre.messages

\* the last handler call of a mocked standalone session asked the responder
MockAsked == prog \in SaProgs /\ mocked /\ last.op # "none" /\ last.asked

AsksOwnName(content) ==
    Contains(LowerText(content), "what's my name")

\* the text tells the user a name as theirs
StatesAName(text) == Contains(text, "Your name is")

\* standalone process_input answered, by the scripted responder or by the canned
\* turn of a failed model call, a user whose name was never set and who asks for it
NamelessUserAsksName ==
    /\ prog \in SaProgs
    /\ last.op = "process_input"
    /\ last.asked
    /\ (mocked \/ last.reply.raises)
    /\ UserName(last.pre) = None
    /\ UserName(last.st) = None
    /\ AsksOwnName(Last(HumanMessages(last.pre.messages)).content)

\* C21: in the standalone agent, when user.name was never set and the user asks
\* what their name is, the assistant turn that the scripted responder or the
\* fallback produces states no name as the user's name
C21_NoNameMadeUp ==
    NamelessUserAsksName => ~StatesAName(Last(last.out.messages).content)

\* the log ends with an assistant turn that asks for the user's name and the
\* user's reply to it
AskedNameAndAnswered(msgs) ==
    /\ Len(msgs) >= 2
    /\ IsHuman(Last(msgs))
    /\ IsAI(msgs[Len(msgs) - 1])
    /\ Contains(LowerText(msgs[Len(msgs) - 1].content), "what's your name")

\* the name a reply gives: what follows "my name is ", else the whole reply,
\* without the blanks around it
NameGiven(content) ==
    IF \E i \in 1..Len(content) : content[i] = "my name is"
    THEN Strip(AfterFirst(content, "my name is"))
    ELSE Strip(content)

\* the step calls standalone process_input
CallsSaProcessInput ==
    /\ prog \in SaProgs
    /\ last'.op = "process_input"
    /\ \/ prog = "sa_call" /\ calls' # calls
       \/ prog = "sa_run" /\ turns' # turns /\ pc' = "loop"

\* a call of process_input sees the name of the state it is called on, and a
\* call on a log that ends with the request for the name and the user's reply
\* writes the name of the reply to the state, returns it, and leaves it in the
\* state the caller goes on with
NameCarried ==
    CallsSaProcessInput =>
        /\ UserName(last'.pre) = UserName(state)
        /\ AskedNameAndAnswered(last'.pre.messages) =>
              LET name == NameGiven(Last(last'.pre.messages).content)
              IN  /\ ~last'.raised
                  /\ UserName(last'.st) = name
                  /\ UserName(last'.out) = name
                  /\ UserName(state') = name

\* C22: in standalone process_input, when the previous assistant turn asked for
\* the user's name and the latest turn is the user's reply, user.name is set from
\* that reply and the state returned to the caller carries the name, so the next
\* process_input call on the returned state sees the same name
C22_NameCarriedToNextCall == [][NameCarried]_vars

\* run_agent took the name Bob from the reply to the greeting, and the call for
\* the user's second line saw it
C22_Witness ==
    /\ prog = "sa_run"
    /\ turns = 2
    /\ Len(hist) = 3
    /\ hist[2].op = "process_input"
    /\ UserName(hist[1].out) = None
    /\ UserName(hist[2].out) = <<"Bob">>
    /\ last.op = "process_input"
    /\ UserName(last.pre) = <<"Bob">>

\* the caller holds a state it had before it created the one it holds now
HasPrevious(p) == DOMAIN p # {}

\* the lists and the name of a state are those of a state nobody has written
IsEmptyState(s) ==
    /\ UserName(s) = None
    /\ s.todos = <<>>
    /\ s.messages = <<>>
    /\ s.skills_used = <<>>

\* a step that creates an AgentState creates it empty and leaves the state held
\* before as it was; a step that writes to the later state leaves the earlier
\* one as it was
NewStateStandsAlone ==
    /\ (~HasPrevious(previous) /\ HasPrevious(previous')) =>
          /\ IsEmptyState(state')
          /\ previous' = state
    /\ HasPrevious(previous) => previous' = previous

InvokedAtLimit ==
    /\ prog \in WfProgs \cup {"wf_loop"}
    /\ last.op = "analyze_sentiment"
    /\ DictGet(last.pre, "sentiment_attempts", 0) >= 3

\* C24: whenever analyze_sentiment is invoked with sentiment_attempts >= 3, it
\* sets current_step to the terminal sentinel and returns the hand-off message,
\* without calling the classifier and without changing sentiment_attempts,
\* whatever the last user turn says
C24_AtLimitHandsOff ==
    InvokedAtLimit =>
        /\ ~last.raised
        /\ ~last.asked
        /\ last.out.current_step = END
        /\ current_step = END
        /\ last.out.messages = <<AIMessage(WfHandOff)>>
        /\ ~HasKey(last.out, "sentiment_attempts")
        /\ last.st = last.pre
        /\ state.sentiment_attempts = last.pre.sentiment_attempts

\* analyze_sentiment was invoked at the limit on a log whose last user turn is
\* no answer, with the classifier available
C24_Witness ==
    /\ prog = "wf_sent"
    /\ llm_ok
    /\ InvokedAtLimit
    /\ last.inp = <<"hmm">>
    /\ Last(HumanMessages(last.pre.messages)).content = <<"hmm">>

\* the counter of a state, 0 when it holds none
Attempts(s) == DictGet(s, "sentiment_attempts", 0)

\* the programs of workflow_fixed
WfAllProgs == WfProgs \cup {"wf_loop"}

\* a step of a workflow_fixed session never lowers the counter, in the state the
\* handler wrote or in the merged state, and a step in which the classifier gave
\* an ambiguous result raises it by exactly one
AttemptsCountUp ==
    prog \in WfAllProgs =>
        /\ Attempts(state') >= Attempts(state)
        /\ pc' # "invalid" =>
              /\ Attempts(last'.st) >= Attempts(last'.pre)
              /\ Attempts(last'.pre) = Attempts(state)
              /\ HasKey(last'.out, "sentiment_attempts") =>
                    last'.out.sentiment_attempts >= Attempts(state)
              /\ (last'.op = "analyze_sentiment" /\ last'.asked /\ Ambiguous(last'.reply)) =>
                    /\ Attempts(state') = Attempts(state) + 1
                    /\ last'.out.sentiment_attempts = Attempts(state) + 1

\* C25: sentiment_attempts increases by exactly one on each ambiguous
\* classification result and is never decreased or reset to zero by a handler or
\* by the driver's merge during a session; validate_input sets it to 0 only when
\* it is absent
C25_AttemptsOnlyCountUp == [][AttemptsCountUp]_vars

\* the classifier gave its second ambiguous result and the counter went to 2
C25_Witness ==
    /\ prog = "wf_sent"
    /\ last.op = "analyze_sentiment"
    /\ last.asked
    /\ Ambiguous(last.reply)
    /\ Attempts(last.pre) = 1
    /\ Attempts(state) = 2

\* the last call was a registered handler of workflow_fixed that returned a label
WfReturnedLabel ==
    /\ prog \in WfAllProgs
    /\ last.op \in WfRegistry
    /\ ~last.raised
    /\ HasKey(last.out, "current_step")

\* C26: every current_step label that a handler registered in workflow_fixed.main
\* returns, in any state, is a key of the registry or the one sentinel on which
\* the driver loop stops; a handler that ends the conversation returns that
\* sentinel
C26_ReturnedLabelsKnown ==
    WfReturnedLabel => last.out.current_step \in WfRegistry \cup {"__end__"}

\* C27: no step handler mutates the state record passed to it: every change to
\* messages, todos, skills_used, user or sentiment_attempts is made only through
\* the returned update, so the caller's state as the handler leaves it equals the
\* state the handler was called on
C27_HandlersLeaveStateAlone ==
    last.op # "none" => last.st = last.pre

\* the message that the last process_input call gave the intent classifier
ClassifiedMessage == Last(last.pre.messages)

\* C28: the text that workflowbond7 process_input classifies is always the most
\* recent user turn: process_input never sends an assistant turn (the greeting,
\* or the confirmation of add_todo, view_todos or general_question) to the intent
\* classifier
C28_ClassifiesUserTurn ==
    (B7ProcessedInput /\ last.asked) =>
        /\ IsHuman(ClassifiedMessage)
        /\ ClassifiedMessage = Last(HumanMessages(last.pre.messages))

\* every program that runs the standalone agent's handlers
SaAllProgs == SaProgs \cup SaCallProgs

\* the model call of the last standalone handler call raised
SaModelCallRaised == prog \in SaAllProgs /\ last.asked /\ last.reply.raises

\* the canned greetings of generate_greeting
CannedGreetings(s) ==
    { <<"Hello!", "I'm 007.", "I don't think we've met before.", "What's your name">> } \cup
    { <<"Hello">> \o UserName(s) \o <<"I'm 007.", "How can I help you today?">> }

\* the canned turn of process_input
CannedTurn == AIMessage(<<"I understand.", "Is there anything specific you'd like help with today?">>)

\* C29: in the standalone agent a model call that raises never propagates out of
\* a handler: process_input then appends exactly one canned fallback assistant
\* turn and keeps current_step = process_input, generate_greeting returns one
\* canned greeting turn, and the session continues
C29_RaisingModelCallHandled ==
    SaModelCallRaised =>
        /\ ~last.raised
        /\ pc \notin {"error", "crashed"}
        /\ last.out.current_step = "process_input"
        /\ last.op = "process_input" =>
              /\ last.out.messages = Append(last.pre.messages, CannedTurn)
              /\ (prog = "sa_run" /\ pc = "loop") => state.messages = last.out.messages
        /\ last.op = "generate_greeting" =>
              /\ Len(AIMessages(last.out.messages)) = 1
              /\ AIMessages(last.out.messages)[1].content \in CannedGreetings(last.pre)

\* the model failed at the greeting and at the user's first line, and run_agent
\* went on to answer the second line
C29_Witness ==
    /\ prog = "sa_run"
    /\ turns = 2
    /\ pc = "loop"
    /\ Len(hist) = 3
    /\ hist[1].op = "generate_greeting" /\ hist[1].reply.raises
    /\ hist[2].op = "process_input" /\ hist[2].reply.raises
    /\ Last(hist[2].out.messages) = CannedTurn
    /\ last.op = "process_input"
    /\ last.reply.raises

\* the step is a handler call of workflowbond7 whose model call raised
B7ModelCallRaised ==
    /\ prog \in B7Progs
    /\ calls' # calls
    /\ last'.op \in {"process_input", "general_question"}
    /\ last'.asked
    /\ last'.reply.raises

\* the canned texts workflowbond7 has for a request it cannot process or answer
B7CannedTexts == { B7TroubleProcessing, B7TroubleAnswering }

\* a step whose model call raised appends one canned assistant turn to the log
\* and leaves the session running
RaisingCallDegrades ==
    B7ModelCallRaised =>
        /\ pc' \notin {"crashed", "error"}
        /\ Len(Log(state')) = Len(Log(last'.pre)) + 1
        /\ IsPrefix(Log(last'.pre), Log(state'))
        /\ IsAI(Last(Log(state')))
        /\ Last(Log(state')).content \in B7CannedTexts

\* C30: in workflowbond7, when the model call of process_input's intent
\* classification or of general_question raises, a canned fallback assistant
\* turn is appended to the message log and the session continues with the next
\* user input
C30_RaisingCallDegrades == [][RaisingCallDegrades]_vars

\* the name is known: it is neither None nor the empty text
NameKnown(name) == name # None /\ name # <<>>

\* the greeting for a user of this name, and the greeting that asks for the name
PersonalGreeting(name) == <<"Hello">> \o name \o <<"I'm 007.", "How can I help you today?">>
GenericGreeting == <<"Hello!", "I'm 007.", "I don't think we've met before.", "What's your name">>

\* the text of the assistant turn that the last call returned
GreetingGiven == Last(AIMessages(last.out.messages)).content

\* C31: generate_greeting produces the personalized greeting exactly when
\* user.name is known and the generic greeting that asks for the name exactly
\* when it is not, in 007-workflow, workflowbond7 and the standalone agent
C31_GreetingFollowsName ==
    (last.op = "generate_greeting" /\ ~last.raised) =>
        IF NameKnown(UserName(last.pre))
        THEN GreetingGiven = PersonalGreeting(UserName(last.pre))
        ELSE GreetingGiven = GenericGreeting

\* the step is main's call of human_step, and the line read is an exit keyword
ExitTypedAtHumanStep ==
    /\ prog \in WfMainProgs
    /\ pc = "loop"
    /\ current_step = "human_step"
    /\ last'.op = "human_step"
    /\ IsExitLine(last'.inp)

\* an exit keyword read by human_step ends the session: the step is the terminal
\* sentinel and the line is no turn of the log that a later handler works on
ExitKeywordEnds ==
    ExitTypedAtHumanStep =>
        /\ current_step' = "__end__"
        /\ pc' = "done"
        /\ Log(state') = Log(state)

\* C32: in workflow_fixed, an exit keyword (exit, quit or bye) typed at the
\* human_step prompt terminates the session: current_step becomes the terminal
\* sentinel and neither process_name nor process_schedule is invoked on that
\* input
C32_ExitKeywordEnds == [][ExitKeywordEnds]_vars

\* a required section, or a required field of a section, is missing from s
InputIncomplete(s) ==
    \/ {"customer", "task", "vendor"} \ DOMAIN s # {}
    \/ {"name", "email", "phoneNumber", "zipCode"} \ DOMAIN s.customer # {}
    \/ {"description", "category"} \ DOMAIN s.task # {}
    \/ {"name", "email", "phoneNumber"} \ DOMAIN s.vendor # {}

\* the nodes that have run, in the order they ran
NodesRun == [i \in 1..Len(hist) |-> hist[i].op]

\* C33: in workflow.py validate_input raises exactly when a required section
\* (customer, task, vendor) or one of its required fields is missing, and
\* otherwise returns the state unchanged; the graph runs validate, then process,
\* then format, so no summary and no output is produced for an input that fails
\* validation
C33_ValidationGuardsTheGraph ==
    prog = "wf_py" =>
        /\ last.op = "validate" =>
              /\ last.raised <=> InputIncomplete(last.pre)
              /\ ~last.raised => (last.out = last.pre /\ last.st = last.pre)
        /\ IsPrefix(NodesRun, <<"validate", "process", "format">>)
        /\ InputIncomplete(state) =>
              /\ ~HasKey(state, "summary")
              /\ result = <<>>
              /\ pc \in {"validate", "crashed"}
              /\ last.op \in {"none", "validate"}

\* an input whose last section lacks its last required field was refused
C33_Witness ==
    /\ prog = "wf_py"
    /\ pc = "crashed"
    /\ last.op = "validate"
    /\ last.raised
    /\ last.out = <<"Missing", "phoneNumber", "in", "vendor">>
    /\ DOMAIN state.customer = {"name", "email", "phoneNumber", "zipCode"}

\* the steps that main executes
MainSteps == {"validate", "initialize", "process_name", "human_step", "process_schedule"}

\* C34: in workflow_fixed.main, for every sequence of user inputs, the only steps
\* executed are validate, initialize, process_name, human_step and
\* process_schedule; analyze_sentiment, reschedule, confirm_end,
\* process_additional and process_notes are never invoked by the driver
C34_MainRunsFiveSteps ==
    prog = "wf_main" =>
        /\ last.op \in MainSteps \cup {"none"}
        /\ \A i \in 1..Len(hist) : hist[i].op \in MainSteps
        /\ current_step \in MainSteps \cup {"__end__"}

\* main ran to the end of a session in which the user gave two lines, the
\* second one an exit keyword
C34_Witness ==
    /\ prog = "wf_main"
    /\ pc = "done"
    /\ NodesRun = <<"validate", "initialize", "process_name">>
    /\ last.op = "process_schedule"
    /\ Last(HumanMessages(state.messages)).content = <<"exit">>

\* the steps of a session of main in which the user types two lines
FullSession ==
    << "validate", "initialize", "process_name", "human_step", "process_name", "human_step",
       "process_schedule" >>

\* the types of the messages of a log, in order
Types(msgs) == [i \in 1..Len(msgs) |-> msgs[i].type]

\* the last step read a line that is empty once trimmed
EmptyLineRead == last.op = "human_step" /\ Strip(last.inp) = <<>>

\* main follows the steps of the full session, reads at most two lines, ends at
\* once on an empty line, and otherwise ends after process_schedule with the log
\* system, greeting, user, acknowledgement, user, closing
MainSessionShape ==
    prog = "wf_main" =>
        /\ turns <= 2
        /\ calls <= Len(FullSession)
        /\ pc \in {"loop", "done"}
        /\ last.op # "none" => last.op = FullSession[calls]
        /\ EmptyLineRead => (pc = "done" /\ state.messages = last.pre.messages)
        /\ pc = "done" =>
              \/ EmptyLineRead
              \/ /\ calls = Len(FullSession)
                 /\ turns = 2
                 /\ Types(state.messages) = <<"system", "ai", "human", "ai", "human", "ai">>
                 /\ state.messages[2].content = WfGreeting
                 /\ state.messages[4].content = WfThanks(Strip(state.messages[3].content))
                 /\ state.messages[6].content = WfClosing

\* C35: every run of workflow_fixed.main terminates after reading at most two
\* lines of user input: an empty line ends the session at once, and otherwise
\* the sequence validate, initialize, process_name, human_step, process_name,
\* human_step, process_schedule reaches the terminal sentinel, with the message
\* log ending as system, greeting, user, acknowledgement, user, closing
C35_MainTerminates ==
    /\ []MainSessionShape
    /\ <>(prog = "wf_main" => pc = "done" /\ current_step = "__end__")

\* main ended after process_schedule, the user having typed two lines that are
\* not empty
C35_Witness ==
    /\ prog = "wf_main"
    /\ pc = "done"
    /\ calls = 7
    /\ turns = 2
    /\ last.op = "process_schedule"
    /\ Len(state.messages) = 6

IsSystem(m) == m.type = "system"

\* the system prompts in the log of a state
SystemPrompts(s) == SelectSeq(Log(s), IsSystem)

\* a handler call made once the user has typed a line is no call of
\* generate_greeting, and no step puts a second system prompt in the log
GreetsOnlyAtStart ==
    prog \in PromptProgs =>
        /\ (turns > 0 /\ last' # last) => last'.op # "generate_greeting"
        /\ Len(SystemPrompts(state')) <= 1

\* C36: the greeting step runs exactly once per session, at session start: in
\* workflowbond7 main and in standalone run_agent, handling a later user turn
\* never invokes generate_greeting again and never appends another system prompt
\* or greeting turn to the message log
C36_GreetsOnlyAtStart == [][GreetsOnlyAtStart]_vars

\* the last call was process_name on a log that ends with a user turn
NameTurnProcessed ==
    /\ prog \in WfAllProgs
    /\ last.op = "process_name"
    /\ ~last.raised
    /\ Log(last.pre) # <<>>
    /\ IsHuman(Last(Log(last.pre)))

\* C37: in workflow_fixed, after process_name has processed a user turn (the
\* reply to the greeting that asks for the name), the customer's name field in
\* the state is the trimmed reply and is no longer unset
C37_CustomerNameStored ==
    NameTurnProcessed =>
        /\ state.customer.name = Strip(Last(Log(last.pre)).content)
        /\ state.customer.name # None

\* the identity field of the state of the running program
IdentityField ==
    IF prog \in WfMainProgs THEN state.customer.name ELSE UserName(state)

\* C38: the identity field is never set to the empty text: a user turn whose
\* trimmed text is empty does not become the captured name, in standalone
\* process_input under run_agent, in workflowbond7 process_input and in
\* workflow_fixed process_name under human_step
C38_NameNeverEmpty ==
    prog \in WfMainProgs \cup B7Progs \cup {"sa_run"} => IdentityField # <<>>

\* the log of the state that the driver's next turn starts from
NextTurnLog(res, st) == Log(IF prog = "b7_main" THEN res ELSE st)

\* the log ends with the user's turn of this line
EndsWithUserTurn(log, l) ==
    /\ log # <<>>
    /\ IsHuman(Last(log))
    /\ Last(log).content = l

\* a step in which the turn is aborted leaves the user's line of that turn out
\* of the log that the next turn starts from
AbortedTurnDropped ==
    (B7TurnFailed \/ SaTurnFailed) =>
        ~EndsWithUserTurn(NextTurnLog(result', state'), line')

\* C39: when a turn is aborted by an exception in standalone run_agent or in
\* workflowbond7 main, the conversation state used for the next turn equals the
\* state before the aborted turn's user input was added: the aborted user turn
\* does not remain in the message log
C39_AbortedTurnDropped == [][AbortedTurnDropped]_vars

\* the step is a turn of a mocked run_agent session that process_input handled
MockedSessionTurn ==
    /\ prog = "sa_run"
    /\ mocked
    /\ pc = "loop"
    /\ turns' = turns + 1
    /\ pc' = "loop"

\* the user's first reply of a run_agent session: the line after the prompt and
\* the greeting
FirstReply(log) == log[3].content

\* the first reply, when it gives a name, becomes user.name, and a later line
\* that asks for the user's name is answered with the name of the first reply
MockedSessionKeepsName ==
    MockedSessionTurn =>
        LET log == Log(state')
            first == FirstReply(log)
        IN  /\ (turns = 0 /\ Strip(first) # <<>> /\ ~AsksOwnName(first)) =>
                  UserName(state') = NameGiven(first)
            /\ (turns >= 1 /\ AsksOwnName(Strip(line'))) =>
                  Last(log).content = MockResponse("name_recall", NameGiven(first))

\* C40: in a run_agent session answered by the scripted responder, the user's
\* first reply after the greeting is taken as a name introduction and sets
\* user.name, and a later question for the user's name is answered with that name
C40_MockedSessionKeepsName == [][MockedSessionKeepsName]_vars

====
